---- MODULE Spec2Model ----
(***************************************************************************)
(* Production Analytics & Forecasting Engine (src/analysis.py).            *)
(*                                                                         *)
(* The module holds several specifications over one set of variables:      *)
(*   SpecPersona  - the StateClassifier (_select_persona_name)             *)
(*   SpecPredict  - one inference call (_generate_ai_predictions)          *)
(*   SpecEngine   - training, persistence and reload, call by call         *)
(*   SpecLifecycle - train_models, save_models and load_models of one      *)
(*                  engine called in any order                             *)
(*   SpecConc     - a retraining interleaved with an inference thread and  *)
(*                  with a load in another process, statement by statement *)
(*   SpecAnalysis - the gates and the scoring of generate_analysis         *)
(*   SpecHourly   - the AdvancedHourlyAnalyzer on one batch of periods      *)
(*   SpecPeaks    - the same on batches with every pattern of peak periods *)
(*                  (src/advanced_hourly_analysis.py)                      *)
(*   SpecAnomaly  - the rules of _local_ai_anomaly_detection               *)
(*   SpecClean    - _clean_nan_values and the two module-level wrappers of *)
(*                  src/advanced_hourly_analysis.py                        *)
(*   SpecFeatures - LocalAIEngine.extract_features called at several times *)
(*   SpecPaths    - update_local_ai_config and the directories save_models *)
(*                  and load_models use                                    *)
(*   SpecHistory  - the training-history log of src/train_from_db.py        *)
(*   SpecSetup    - LocalAISetup of src/local_ai_config.py: training,       *)
(*                  saving and loading                                     *)
(* Each specification leaves the variables of the other groups unchanged.  *)
(***************************************************************************)
EXTENDS Integers, Sequences, FiniteSets, TLC

VARIABLES
    \* --- StateClassifier group ---
    scores,            \* dict {'quantity','quality','stability'} given to the classifier
    trend_score,       \* trend-sign scalar
    hours_processed,   \* elapsed hours
    persona_name,      \* result of _select_persona_name, "" before the call
    \* --- ForecastModel: the shared engine and one inference call ---
    engine,            \* local_ai_engine: the three models, the scaler, is_trained
    stats,             \* today's stats map: today_total, type_1_percent
    prediction,        \* what _generate_ai_predictions ended up with
    \* --- ForecastModel: training, persistence, reload ---
    files,             \* the four artifact files on disk
    min_data_points,   \* local_ai_config.min_data_points
    run,               \* number of training runs that began fitting
    ret,               \* what the last train_models call returned
    last_n,            \* len(historical_data) of the last train_models call
    trained_engine,    \* the engine as it was when train_models last returned True
    lastOp,            \* the operation that ran last
    \* --- ForecastModel: threads and processes, statement by statement ---
    tpc,               \* where the training thread stands in train_models / save_models
    ipc,               \* where the inference thread stands in _generate_ai_predictions
    seen,              \* the artifacts the running inference call has used so far
    lpc,               \* number of files the other process's load_models has read
    engine2,           \* local_ai_engine of the other process
    \* --- generate_analysis ---
    analysis_in,       \* the arguments of one generate_analysis call
    analysis_out,      \* what the call returned
    \* --- AdvancedHourlyAnalyzer ---
    hourly_data,       \* the batch of period records given to the analyzer
    hourly_out,        \* what analyze_hourly_performance computed
    \* --- _local_ai_anomaly_detection ---
    anomaly_in,        \* the stats and exec_summary maps of one call
    anomalies,         \* how the call ended and the list of events it returned
    \* --- _clean_nan_values ---
    clean_in,          \* a nested structure of dicts, lists and numbers
    clean_out,         \* the cleaned structure
    \* --- LocalAIEngine.extract_features ---
    features_in,       \* stats, exec_summary and trend_data of the calls
    feature_calls,     \* the calls made so far: the month of the clock, the vector
    \* --- LocalAIConfig paths, save_models, load_models ---
    config_paths,      \* local_ai_config.model_path and .scaler_path
    disk,              \* the artifact files of every directory
    io,                \* the last save_models or load_models: where each file went
    \* --- train_from_db ---
    history,           \* the lines of training_history.jsonl
    history_ret,       \* how the last run of train_from_db ended
    \* --- LocalAISetup (src/local_ai_config.py) ---
    setup,             \* the three models, the scaler and is_trained of one instance
    setup_files,       \* the artifact files under its model_path
    setup_call         \* the last method called on it, what it returned, trainings so far

personaVars == <<scores, trend_score, hours_processed, persona_name>>

predictVars == <<stats, prediction>>

storeVars == <<files, min_data_points, run, ret, last_n, trained_engine, lastOp>>

concVars == <<tpc, ipc, seen, lpc, engine2>>

analysisVars == <<analysis_in, analysis_out>>

hourlyVars == <<hourly_data, hourly_out>>

anomalyVars == <<anomaly_in, anomalies>>

cleanVars == <<clean_in, clean_out>>

featureVars == <<features_in, feature_calls>>

pathVars == <<config_paths, disk, io>>

historyVars == <<history, history_ret>>

setupVars == <<setup, setup_files, setup_call>>

vars == <<scores, trend_score, hours_processed, persona_name, engine, stats, prediction,
          files, min_data_points, run, ret, last_n, trained_engine, lastOp,
          tpc, ipc, seen, lpc, engine2, analysis_in, analysis_out,
          hourly_data, hourly_out, anomaly_in, anomalies, clean_in, clean_out,
          features_in, feature_calls, config_paths, disk, io, history, history_ret,
          setup, setup_files, setup_call>>

(***************************************************************************)
(* Bounds of the model                                                     *)
(***************************************************************************)
MaxHours == 9
MaxTotal == 6          \* largest volume of a day, in model units
QualityStep == 25      \* distance between two modelled quality percentages
QualitySteps == 5      \* quality percentages run from -QualityStep to QualityStep * QualitySteps
MaxRuns == 2           \* training runs that get as far as fitting
MaxRecords == 11       \* largest number of historical records passed to train_models

(***************************************************************************)
(* The state of each group while another specification runs                *)
(***************************************************************************)
\* No classification has been made: the inputs of the other specifications.
PersonaIdle ==
    /\ scores = [quantity |-> 0, quality |-> 0, stability |-> 0]
    /\ trend_score = 0
    /\ hours_processed = 0
    /\ persona_name = ""

\* An artifact is named by the training run that produced it; None is the
\* value of a model attribute before any training or load, and names the
\* scaler that StandardScaler() constructs, which was never fitted.
None == 0

\* LocalAIEngine.__init__
FreshEngine ==
    [ quantity_model     |-> None,
      quality_model      |-> None,
      persona_classifier |-> None,
      scaler             |-> None,
      is_trained         |-> FALSE ]

EngineIdle == engine = FreshEngine

NoPrediction ==
    [ kind |-> "none", pred_qty |-> 0, pred_qly |-> 0, adjusted |-> FALSE,
      scaler_used |-> FALSE, models_used |-> FALSE ]

PredictIdle ==
    /\ stats = [today_total |-> 0, type_1_percent |-> 0]
    /\ prediction = NoPrediction

\* LocalAIConfig.__init__: min_data_points
DefaultMinDataPoints == 10

ArtifactNames == {"quantity_model", "quality_model", "persona_classifier", "scaler"}

\* A file holds the pickled value of an attribute (the artifact of one
\* training run, or None when save_models ran before any training), or does
\* not exist (NoFile), or was opened for writing and not written completely
\* (Truncated).
NoFile == 0 - 2
Truncated == 0 - 1

\* The model directory after ensure_model_directory() on a new installation.
NoFiles == [a \in ArtifactNames |-> NoFile]

StoreIdle ==
    /\ files = NoFiles
    /\ min_data_points = DefaultMinDataPoints
    /\ run = 0
    /\ ret = "none"
    /\ last_n = 0
    /\ trained_engine = FreshEngine
    /\ lastOp = "init"

\* No training, inference or load is under way.
NothingSeen == [kind |-> "none", scaler |-> None, quantity_model |-> None, quality_model |-> None]

ConcIdle ==
    /\ tpc = [at |-> "idle", file |-> 0]
    /\ ipc = "idle"
    /\ seen = NothingSeen
    /\ lpc = 0
    /\ engine2 = FreshEngine

\* generate_analysis has not been called.
NoArguments ==
    [ month |-> 0, day |-> 0, today_total |-> 0, avg_daily_tons |-> 0,
      type_1_percent |-> 0, avg_fresh_percent |-> 0, has_comparison_data |-> FALSE,
      hours_processed |-> 0, peak_hour_tons |-> 0, has_trend_data |-> FALSE,
      tons_trend_percent |-> 0, fresh_trend_percent |-> 0, raises |-> "none" ]

NoAnalysis ==
    [ kind |-> "none", ai_enhanced |-> FALSE, persona_name |-> "",
      scores |-> [quantity |-> 0, quality |-> 0, stability |-> 0],
      ai_enhanced_score |-> 0, overall_score_value |-> 0,
      anomalies |-> "absent", efficiency_metrics |-> "absent", calls |-> {} ]

AnalysisIdle ==
    /\ analysis_in = NoArguments
    /\ analysis_out = NoAnalysis

\* The analyzer has not been given a batch.
NoHourly == [kind |-> "none"]

HourlyIdle ==
    /\ hourly_data = << >>
    /\ hourly_out = NoHourly

\* The anomaly detector has not been called.
NoStats == [kind |-> "none"]

NotDetected == [outcome |-> "none", events |-> << >>]

AnomalyIdle ==
    /\ anomaly_in = NoStats
    /\ anomalies = NotDetected

\* Nothing has been cleaned.
NoStructure == [kind |-> "none"]

CleanIdle ==
    /\ clean_in = NoStructure
    /\ clean_out = NoStructure

\* extract_features has not been called.
NoFeatureInput == [kind |-> "none"]

FeatureIdle ==
    /\ features_in = NoFeatureInput
    /\ feature_calls = << >>

\* The configuration of a newly imported module, no directory holding a file,
\* no save or load done.
DefaultPath == "ai_models/"
Directories == {DefaultPath, "models_a/", "models_b/"}
DefaultPaths == [model_path |-> DefaultPath, scaler_path |-> DefaultPath]
EmptyDisk == [d \in Directories |-> NoFiles]
NoIo ==
    [op |-> "none", model_path |-> DefaultPath, saves |-> 0,
     dirs |-> [a \in ArtifactNames |-> ""]]

PathIdle ==
    /\ config_paths = DefaultPaths
    /\ disk = EmptyDisk
    /\ io = NoIo

\* train_from_db has not run; the history file does not exist.
NoRun == [runs |-> 0, result |-> "none", trained |-> FALSE]

HistoryIdle ==
    /\ history = << >>
    /\ history_ret = NoRun

\* No method of the LocalAISetup instance has been called.
NoCall == [op |-> "none", ret |-> "none", runs |-> 0]

\* LocalAISetup.__init__ assigns the same five attributes as
\* LocalAIEngine.__init__; its directory holds no artifact file.
SetupIdle ==
    /\ setup = FreshEngine
    /\ setup_files = NoFiles
    /\ setup_call = NoCall

(***************************************************************************)
(* StateClassifier                                                         *)
(***************************************************************************)
MaxSubScore == 5
TrendLimit == 2

SubScores == 0..MaxSubScore
TrendSigns == (0 - TrendLimit)..TrendLimit
HoursValues == 0..MaxHours

\* The keys of the PERSONAS table, each with its headline colour.
PERSONAS ==
    [ CRITICAL             |-> "text-danger",
      EXCELLENT            |-> "text-success",
      QUANTITY_PUSH        |-> "text-warning",
      QUALITY_FOCUS        |-> "text-primary",
      VOLATILE_PERFORMANCE |-> "text-info",
      STABLE_RECOVERY      |-> "text-success",
      CONCERNING_TREND     |-> "text-warning",
      STEADY_PERFORMANCE   |-> "text-info",
      WEAK_START           |-> "text-warning" ]

\* Mutant: the critical rule is tested before the weak-start rule.
select_persona_name_critical_first(sc, trend, hours) ==
    LET qty == sc.quantity
        qly == sc.quality
        stb == sc.stability
    IN  IF qty <= 2 /\ qly <= 2 THEN "CRITICAL"
        ELSE IF 1 < hours /\ hours < 8 /\ (qty < 3 \/ qly < 3) THEN "WEAK_START"
        ELSE IF qty >= 4 /\ qly >= 4 /\ stb >= 4 THEN "EXCELLENT"
        ELSE IF trend <= -2 /\ qty >= 3 /\ qly >= 3 THEN "CONCERNING_TREND"
        ELSE IF trend >= 2 /\ qty >= 3 /\ qly >= 3 THEN "STABLE_RECOVERY"
        ELSE IF qty >= 4 /\ qly <= 2 THEN "QUANTITY_PUSH"
        ELSE IF qty <= 2 /\ qly >= 4 THEN "QUALITY_FOCUS"
        ELSE IF qty >= 3 /\ stb <= 2 THEN "VOLATILE_PERFORMANCE"
        ELSE "STEADY_PERFORMANCE"

\* Mutant: the fallback returns a name that is no key of PERSONAS.
select_persona_name_bad_fallback(sc, trend, hours) ==
    LET qty == sc.quantity
        qly == sc.quality
        stb == sc.stability
    IN  IF 1 < hours /\ hours < 8 /\ (qty < 3 \/ qly < 3) THEN "WEAK_START"
        ELSE IF qty <= 2 /\ qly <= 2 THEN "CRITICAL"
        ELSE IF qty >= 4 /\ qly >= 4 /\ stb >= 4 THEN "EXCELLENT"
        ELSE IF trend <= -2 /\ qty >= 3 /\ qly >= 3 THEN "CONCERNING_TREND"
        ELSE IF trend >= 2 /\ qty >= 3 /\ qly >= 3 THEN "STABLE_RECOVERY"
        ELSE IF qty >= 4 /\ qly <= 2 THEN "QUANTITY_PUSH"
        ELSE IF qty <= 2 /\ qly >= 4 THEN "QUALITY_FOCUS"
        ELSE IF qty >= 3 /\ stb <= 2 THEN "VOLATILE_PERFORMANCE"
        ELSE "STEADY"

\* Mutant: the critical rule needs both sub-scores to be 0.
select_persona_name_strict_critical(sc, trend, hours) ==
    LET qty == sc.quantity
        qly == sc.quality
        stb == sc.stability
    IN  IF 1 < hours /\ hours < 8 /\ (qty < 3 \/ qly < 3) THEN "WEAK_START"
        ELSE IF qty < 1 /\ qly < 1 THEN "CRITICAL"
        ELSE IF qty >= 4 /\ qly >= 4 /\ stb >= 4 THEN "EXCELLENT"
        ELSE IF trend <= -2 /\ qty >= 3 /\ qly >= 3 THEN "CONCERNING_TREND"
        ELSE IF trend >= 2 /\ qty >= 3 /\ qly >= 3 THEN "STABLE_RECOVERY"
        ELSE IF qty >= 4 /\ qly <= 2 THEN "QUANTITY_PUSH"
        ELSE IF qty <= 2 /\ qly >= 4 THEN "QUALITY_FOCUS"
        ELSE IF qty >= 3 /\ stb <= 2 THEN "VOLATILE_PERFORMANCE"
        ELSE "STEADY_PERFORMANCE"

\* _select_persona_name(scores, trend_score, hours_processed)
select_persona_name(sc, trend, hours) ==
    LET qty == sc.quantity
        qly == sc.quality
        stb == sc.stability
    IN  IF 1 < hours /\ hours < 8 /\ (qty < 3 \/ qly < 3) THEN "WEAK_START"
        ELSE IF qty <= 2 /\ qly <= 2 THEN "CRITICAL"
        ELSE IF qty >= 4 /\ qly >= 4 /\ stb >= 4 THEN "EXCELLENT"
        ELSE IF trend <= -2 /\ qty >= 3 /\ qly >= 3 THEN "CONCERNING_TREND"
        ELSE IF trend >= 2 /\ qty >= 3 /\ qly >= 3 THEN "STABLE_RECOVERY"
        ELSE IF qty >= 4 /\ qly <= 2 THEN "QUANTITY_PUSH"
        ELSE IF qty <= 2 /\ qly >= 4 THEN "QUALITY_FOCUS"
        ELSE IF qty >= 3 /\ stb <= 2 THEN "VOLATILE_PERFORMANCE"
        ELSE "STEADY_PERFORMANCE"

\* A caller holds some sub-scores, trend sign and elapsed hours.
InitPersona ==
    /\ EngineIdle
    /\ PredictIdle
    /\ StoreIdle
    /\ ConcIdle
    /\ AnalysisIdle
    /\ HourlyIdle
    /\ AnomalyIdle
    /\ CleanIdle
    /\ FeatureIdle
    /\ PathIdle
    /\ HistoryIdle
    /\ SetupIdle
    /\ scores \in [quantity : SubScores, quality : SubScores, stability : SubScores]
    /\ trend_score \in TrendSigns
    /\ hours_processed \in HoursValues
    /\ persona_name = ""

\* persona_name = _select_persona_name(scores, trend_score, hours_processed)
SelectPersona ==
    /\ persona_name = ""
    /\ persona_name' = select_persona_name(scores, trend_score, hours_processed)
    /\ UNCHANGED <<scores, trend_score, hours_processed>>
    /\ UNCHANGED <<engine, stats, prediction>>
    /\ UNCHANGED storeVars
    /\ UNCHANGED concVars
    /\ UNCHANGED analysisVars
    /\ UNCHANGED <<hourlyVars, anomalyVars, cleanVars, featureVars, pathVars, historyVars, setupVars>>

NextPersona == SelectPersona

SpecPersona == InitPersona /\ [][NextPersona]_vars

(***************************************************************************)
(* ForecastModel: LocalAIEngine and inference                              *)
(***************************************************************************)
\* The engine after a training run r, or after loading the files of run r.
TrainedEngine(r) ==
    [ quantity_model     |-> r,
      quality_model      |-> r,
      persona_classifier |-> r,
      scaler             |-> r,
      is_trained         |-> TRUE ]

TodayTotals == (0 - 1)..MaxTotal
ModelVolumes == (0 - 1)..(2 * MaxTotal)
QualityValues == {QualityStep * k : k \in (0 - 1)..QualitySteps}

\* Mutant: the check of today's volume is missing.
generate_ai_predictions_no_volume_check(eng, st, model_qty, model_qly) ==
    IF ~eng.is_trained
    THEN [NoPrediction EXCEPT !.kind = "not_trained"]
    ELSE IF None \in {eng.scaler, eng.quantity_model, eng.quality_model}
    THEN [NoPrediction EXCEPT !.kind = "error", !.scaler_used = TRUE,
                              !.models_used = (eng.scaler # None)]
    ELSE LET today_qty == st.today_total
             today_qly == st.type_1_percent
             qty_off == \/ model_qty < 0
                        \/ 10 * model_qty > 14 * today_qty
                        \/ 10 * model_qty < 6 * today_qty
             qly_off == model_qly < 0 \/ model_qly > 100
         IN  [ kind        |-> "prediction",
               pred_qty    |-> IF qty_off THEN today_qty ELSE model_qty,
               pred_qly    |-> IF qly_off THEN today_qly ELSE model_qly,
               adjusted    |-> qty_off \/ qly_off,
               scaler_used |-> TRUE,
               models_used |-> TRUE ]

\* _generate_ai_predictions(stats, exec_summary, trend_data, selected_date):
\* the values it ends up with; model_qty and model_qly are what the two
\* regressors return for the scaled feature vector.  Volumes are compared
\* exactly: pred > today * 1.4 is 10 * pred > 14 * today.
generate_ai_predictions(eng, st, model_qty, model_qly) ==
    IF ~eng.is_trained
    THEN [NoPrediction EXCEPT !.kind = "not_trained"]
    ELSE IF st.today_total <= 0
    THEN [NoPrediction EXCEPT !.kind = "insufficient_data"]
    ELSE IF None \in {eng.scaler, eng.quantity_model, eng.quality_model}
    THEN \* scaler.transform or predict raises, caught at line 977
         [NoPrediction EXCEPT !.kind = "error", !.scaler_used = TRUE,
                              !.models_used = (eng.scaler # None)]
    ELSE LET today_qty == st.today_total
             today_qly == st.type_1_percent
             qty_off == \/ model_qty < 0
                        \/ 10 * model_qty > 14 * today_qty
                        \/ 10 * model_qty < 6 * today_qty
             qly_off == model_qly < 0 \/ model_qly > 100
         IN  [ kind        |-> "prediction",
               pred_qty    |-> IF qty_off THEN today_qty ELSE model_qty,
               pred_qly    |-> IF qly_off THEN today_qly ELSE model_qly,
               adjusted    |-> qty_off \/ qly_off,
               scaler_used |-> TRUE,
               models_used |-> TRUE ]

\* The process holds either no artifacts or the artifacts of one training
\* run, and a caller passes today's stats.
InitPredict ==
    /\ PersonaIdle
    /\ StoreIdle
    /\ ConcIdle
    /\ AnalysisIdle
    /\ HourlyIdle
    /\ AnomalyIdle
    /\ CleanIdle
    /\ FeatureIdle
    /\ PathIdle
    /\ HistoryIdle
    /\ SetupIdle
    /\ engine \in {FreshEngine, TrainedEngine(1)}
    /\ stats \in [today_total : TodayTotals, type_1_percent : QualityValues]
    /\ prediction = NoPrediction

\* prediction_text = _generate_ai_predictions(statistics, ...)
GenerateAiPredictions ==
    /\ prediction.kind = "none"
    /\ \E model_qty \in ModelVolumes, model_qly \in QualityValues :
           prediction' = generate_ai_predictions(engine, stats, model_qty, model_qly)
    /\ UNCHANGED <<engine, stats>>
    /\ UNCHANGED personaVars
    /\ UNCHANGED storeVars
    /\ UNCHANGED concVars
    /\ UNCHANGED analysisVars
    /\ UNCHANGED <<hourlyVars, anomalyVars, cleanVars, featureVars, pathVars, historyVars, setupVars>>

NextPredict == GenerateAiPredictions

SpecPredict == InitPredict /\ [][NextPredict]_vars

(***************************************************************************)
(* ForecastModel: training, persistence and reload (whole calls)           *)
(***************************************************************************)
\* The order in which save_models writes and load_models reads the files.
SaveOrder == <<"quantity_model", "quality_model", "persona_classifier", "scaler">>

\* len(historical_data): no record at all, or a number around the minimum.
RecordCounts == {0} \cup ((DefaultMinDataPoints - 2)..MaxRecords)

\* The min_data_points argument of update_local_ai_config: absent (0), or one
\* below or one above the default.
MinimumChoices == {0, DefaultMinDataPoints - 1, DefaultMinDataPoints + 1}

\* Where fitting may raise inside train_models' try block: while the feature
\* rows are built, in scaler.fit_transform, or in one of the three fits.
FitOutcomes == {"ok", "extract", "scaler", "quantity", "quality", "classifier"}

\* Which write of save_models raises (0: none does).
SaveOutcomes == 0..Len(SaveOrder)

\* Lines 273-277 for training run r.  A failing fit_transform leaves the
\* scaler as it was, or reset to unfitted when `partial`.
fit_models(eng, r, fit, partial) ==
    CASE fit = "extract"    -> eng
      [] fit = "scaler"     -> [eng EXCEPT !.scaler = IF partial THEN None ELSE @]
      [] fit = "quantity"   -> [eng EXCEPT !.scaler = r]
      [] fit = "quality"    -> [eng EXCEPT !.scaler = r, !.quantity_model = r]
      [] fit = "classifier" -> [eng EXCEPT !.scaler = r, !.quantity_model = r,
                                           !.quality_model = r]
      [] fit = "ok"         -> [eng EXCEPT !.scaler = r, !.quantity_model = r,
                                           !.quality_model = r,
                                           !.persona_classifier = r,
                                           !.is_trained = TRUE]

\* save_models: the files after it returns.  The writes before the failing
\* one are done, the failing one leaves its file untouched (open raised) or
\* truncated (dump raised, `partial`), the later ones are not attempted; the
\* exception is caught and printed.
save_models(eng, fl, failAt, partial) ==
    [a \in ArtifactNames |->
        LET i == CHOOSE k \in DOMAIN SaveOrder : SaveOrder[k] = a
        IN  IF failAt = 0 \/ i < failAt THEN eng[a]
            ELSE IF i = failAt /\ partial THEN Truncated
            ELSE fl[a]]

Readable(content) == content \notin {NoFile, Truncated}

\* load_models: the engine after it returns.  The files are read in order;
\* the first one that is missing or cannot be unpickled ends the call with
\* is_trained = False, the attributes assigned before it keep the new value.
load_models(eng, fl) ==
    IF ~Readable(fl.quantity_model)
    THEN [eng EXCEPT !.is_trained = FALSE]
    ELSE IF ~Readable(fl.quality_model)
    THEN [eng EXCEPT !.quantity_model = fl.quantity_model, !.is_trained = FALSE]
    ELSE IF ~Readable(fl.persona_classifier)
    THEN [eng EXCEPT !.quantity_model = fl.quantity_model,
                     !.quality_model = fl.quality_model, !.is_trained = FALSE]
    ELSE IF ~Readable(fl.scaler)
    THEN [eng EXCEPT !.quantity_model = fl.quantity_model,
                     !.quality_model = fl.quality_model,
                     !.persona_classifier = fl.persona_classifier,
                     !.is_trained = FALSE]
    ELSE [ quantity_model     |-> fl.quantity_model,
           quality_model      |-> fl.quality_model,
           persona_classifier |-> fl.persona_classifier,
           scaler             |-> fl.scaler,
           is_trained         |-> TRUE ]

\* Mutant: the size check uses the default minimum, not the configured one.
train_models_default_minimum(n, fit, failAt, partial) ==
    /\ IF n < DefaultMinDataPoints
       THEN /\ fit = "ok" /\ failAt = 0 /\ ~partial
            /\ ret' = "False"
            /\ UNCHANGED <<engine, files, run, trained_engine>>
       ELSE /\ run < MaxRuns
            /\ partial => (fit = "scaler" \/ failAt # 0)
            /\ run' = run + 1
            /\ engine' = fit_models(engine, run + 1, fit, partial)
            /\ IF fit = "ok"
               THEN /\ files' = save_models(engine', files, failAt, partial)
                    /\ trained_engine' = engine'
                    /\ ret' = "True"
               ELSE /\ failAt = 0
                    /\ ret' = "False"
                    /\ UNCHANGED <<files, trained_engine>>
    /\ last_n' = n
    /\ lastOp' = "train_models"
    /\ UNCHANGED min_data_points
    /\ UNCHANGED personaVars
    /\ UNCHANGED predictVars
    /\ UNCHANGED concVars
    /\ UNCHANGED analysisVars
    /\ UNCHANGED <<hourlyVars, anomalyVars, cleanVars, featureVars, pathVars, historyVars, setupVars>>

\* LocalAIEngine.train_models(historical_data) with len(historical_data) = n,
\* save_models included.
train_models(n, fit, failAt, partial) ==
    /\ IF n < min_data_points
       THEN /\ fit = "ok" /\ failAt = 0 /\ ~partial
            /\ ret' = "False"
            /\ UNCHANGED <<engine, files, run, trained_engine>>
       ELSE /\ run < MaxRuns
            /\ partial => (fit = "scaler" \/ failAt # 0)
            /\ run' = run + 1
            /\ engine' = fit_models(engine, run + 1, fit, partial)
            /\ IF fit = "ok"
               THEN /\ files' = save_models(engine', files, failAt, partial)
                    /\ trained_engine' = engine'
                    /\ ret' = "True"
               ELSE /\ failAt = 0
                    /\ ret' = "False"
                    /\ UNCHANGED <<files, trained_engine>>
    /\ last_n' = n
    /\ lastOp' = "train_models"
    /\ UNCHANGED min_data_points
    /\ UNCHANGED personaVars
    /\ UNCHANGED predictVars
    /\ UNCHANGED concVars
    /\ UNCHANGED analysisVars
    /\ UNCHANGED <<hourlyVars, anomalyVars, cleanVars, featureVars, pathVars, historyVars, setupVars>>

\* test_local_ai: load_models on the engine of the running process.
LoadModels ==
    /\ engine' = load_models(engine, files)
    /\ lastOp' = "load_models"
    /\ UNCHANGED <<files, min_data_points, run, ret, last_n, trained_engine>>
    /\ UNCHANGED personaVars
    /\ UNCHANGED predictVars
    /\ UNCHANGED concVars
    /\ UNCHANGED analysisVars
    /\ UNCHANGED <<hourlyVars, anomalyVars, cleanVars, featureVars, pathVars, historyVars, setupVars>>

\* save_models called on its own: whatever the attributes hold is pickled,
\* None included.
SaveModels ==
    /\ \E failAt \in SaveOutcomes, partial \in BOOLEAN :
          /\ partial => failAt # 0
          /\ files' = save_models(engine, files, failAt, partial)
    /\ lastOp' = "save_models"
    /\ UNCHANGED <<engine, min_data_points, run, ret, last_n, trained_engine>>
    /\ UNCHANGED personaVars
    /\ UNCHANGED predictVars
    /\ UNCHANGED concVars
    /\ UNCHANGED analysisVars
    /\ UNCHANGED <<hourlyVars, anomalyVars, cleanVars, featureVars, pathVars, historyVars, setupVars>>

\* The process ends and a new one imports the module: a new configuration, a
\* new engine, and load_models at line 312.
Restart ==
    /\ engine' = load_models(FreshEngine, files)
    /\ min_data_points' = DefaultMinDataPoints
    /\ lastOp' = "restart"
    /\ UNCHANGED <<files, run, ret, last_n, trained_engine>>
    /\ UNCHANGED personaVars
    /\ UNCHANGED predictVars
    /\ UNCHANGED concVars
    /\ UNCHANGED analysisVars
    /\ UNCHANGED <<hourlyVars, anomalyVars, cleanVars, featureVars, pathVars, historyVars, setupVars>>

\* update_local_ai_config(min_data_points=m); a falsy m changes nothing.
UpdateConfig(m) ==
    /\ min_data_points' = IF m # 0 THEN m ELSE min_data_points
    /\ lastOp' = "update_local_ai_config"
    /\ UNCHANGED <<engine, files, run, ret, last_n, trained_engine>>
    /\ UNCHANGED personaVars
    /\ UNCHANGED predictVars
    /\ UNCHANGED concVars
    /\ UNCHANGED analysisVars
    /\ UNCHANGED <<hourlyVars, anomalyVars, cleanVars, featureVars, pathVars, historyVars, setupVars>>

\* A new installation: no artifact files, the module just imported.
InitEngine ==
    /\ PersonaIdle
    /\ PredictIdle
    /\ StoreIdle
    /\ ConcIdle
    /\ AnalysisIdle
    /\ HourlyIdle
    /\ AnomalyIdle
    /\ CleanIdle
    /\ FeatureIdle
    /\ PathIdle
    /\ HistoryIdle
    /\ SetupIdle
    /\ engine = load_models(FreshEngine, NoFiles)

TrainModels ==
    \E n \in RecordCounts, fit \in FitOutcomes, failAt \in SaveOutcomes, partial \in BOOLEAN :
        train_models(n, fit, failAt, partial)

UpdateLocalAiConfig == \E m \in MinimumChoices : UpdateConfig(m)

NextEngine == TrainModels \/ LoadModels \/ Restart \/ UpdateLocalAiConfig

SpecEngine == InitEngine /\ [][NextEngine]_vars

\* The three methods of LocalAIEngine called in any order on the engine of
\* one process.
NextLifecycle == TrainModels \/ SaveModels \/ LoadModels

SpecLifecycle == InitEngine /\ [][NextLifecycle]_vars

(***************************************************************************)
(* ForecastModel: a retraining interleaved with an inference in another    *)
(* thread of the same process and with a load_models in another process.   *)
(* Nothing in the code takes a lock, so every statement is a step.         *)
(***************************************************************************)
\* What no thread of these processes touches.
otherVars == <<min_data_points, ret, last_n, trained_engine, lastOp,
               personaVars, predictVars, analysisVars,
               hourlyVars, anomalyVars, cleanVars, featureVars, pathVars, historyVars, setupVars>>

\* train_models, lines 263-272: the size check passed and the rows are built.
TrainBegin ==
    /\ tpc.at = "idle"
    /\ run < MaxRuns
    /\ run' = run + 1
    /\ tpc' = [at |-> "fit_scaler", file |-> 0]
    /\ UNCHANGED <<engine, files, ipc, seen, lpc, engine2>>
    /\ UNCHANGED otherVars

\* Line 273: fit_transform refits the engine's one scaler object in place.
FitScaler ==
    /\ tpc.at = "fit_scaler"
    /\ engine' = [engine EXCEPT !.scaler = run]
    /\ tpc' = [tpc EXCEPT !.at = "fit_quantity"]
    /\ UNCHANGED <<run, files, ipc, seen, lpc, engine2>>
    /\ UNCHANGED otherVars

\* Line 274.
FitQuantity ==
    /\ tpc.at = "fit_quantity"
    /\ engine' = [engine EXCEPT !.quantity_model = run]
    /\ tpc' = [tpc EXCEPT !.at = "fit_quality"]
    /\ UNCHANGED <<run, files, ipc, seen, lpc, engine2>>
    /\ UNCHANGED otherVars

\* Line 275.
FitQuality ==
    /\ tpc.at = "fit_quality"
    /\ engine' = [engine EXCEPT !.quality_model = run]
    /\ tpc' = [tpc EXCEPT !.at = "fit_classifier"]
    /\ UNCHANGED <<run, files, ipc, seen, lpc, engine2>>
    /\ UNCHANGED otherVars

\* Line 276.
FitClassifier ==
    /\ tpc.at = "fit_classifier"
    /\ engine' = [engine EXCEPT !.persona_classifier = run]
    /\ tpc' = [tpc EXCEPT !.at = "set_trained"]
    /\ UNCHANGED <<run, files, ipc, seen, lpc, engine2>>
    /\ UNCHANGED otherVars

\* Lines 277-278: is_trained = True, then save_models is entered.
SetTrained ==
    /\ tpc.at = "set_trained"
    /\ engine' = [engine EXCEPT !.is_trained = TRUE]
    /\ tpc' = [at |-> "open", file |-> 1]
    /\ UNCHANGED <<run, files, ipc, seen, lpc, engine2>>
    /\ UNCHANGED otherVars

\* save_models: open(path, 'wb') empties the file at its final path.
OpenFile ==
    /\ tpc.at = "open"
    /\ files' = [files EXCEPT ![SaveOrder[tpc.file]] = Truncated]
    /\ tpc' = [tpc EXCEPT !.at = "dump"]
    /\ UNCHANGED <<run, engine, ipc, seen, lpc, engine2>>
    /\ UNCHANGED otherVars

\* save_models: pickle.dump and the end of the with block; after the last
\* file train_models returns True.
DumpFile ==
    /\ tpc.at = "dump"
    /\ files' = [files EXCEPT ![SaveOrder[tpc.file]] = engine[SaveOrder[tpc.file]]]
    /\ tpc' = IF tpc.file < Len(SaveOrder)
              THEN [at |-> "open", file |-> tpc.file + 1]
              ELSE [at |-> "idle", file |-> 0]
    /\ UNCHANGED <<run, engine, ipc, seen, lpc, engine2>>
    /\ UNCHANGED otherVars

\* _generate_ai_predictions, line 796, on a day with today_total > 0.
InferCheck ==
    /\ ipc = "idle"
    /\ IF engine.is_trained
       THEN /\ ipc' = "transform"
            /\ seen' = [NothingSeen EXCEPT !.kind = "running"]
       ELSE /\ ipc' = "done"
            /\ seen' = [NothingSeen EXCEPT !.kind = "not_trained"]
    /\ UNCHANGED <<run, engine, files, tpc, lpc, engine2>>
    /\ UNCHANGED otherVars

\* Line 816: local_ai_engine.scaler.transform(features).
InferTransform ==
    /\ ipc = "transform"
    /\ seen' = [seen EXCEPT !.scaler = engine.scaler]
    /\ ipc' = "predict_qty"
    /\ UNCHANGED <<run, engine, files, tpc, lpc, engine2>>
    /\ UNCHANGED otherVars

\* Line 818, first element: quantity_model.predict(features_scaled).
InferPredictQty ==
    /\ ipc = "predict_qty"
    /\ seen' = [seen EXCEPT !.quantity_model = engine.quantity_model]
    /\ ipc' = "predict_qly"
    /\ UNCHANGED <<run, engine, files, tpc, lpc, engine2>>
    /\ UNCHANGED otherVars

\* Line 818, second element: quality_model.predict(features_scaled).
InferPredictQly ==
    /\ ipc = "predict_qly"
    /\ seen' = [seen EXCEPT !.quality_model = engine.quality_model, !.kind = "prediction"]
    /\ ipc' = "done"
    /\ UNCHANGED <<run, engine, files, tpc, lpc, engine2>>
    /\ UNCHANGED otherVars

\* The call returns what it computed; the next request starts another one.
InferReturn ==
    /\ ipc = "done"
    /\ ipc' = "idle"
    /\ seen' = seen
    /\ UNCHANGED <<run, engine, files, tpc, lpc, engine2>>
    /\ UNCHANGED otherVars

\* load_models in the other process, lines 294-297: the next file is read,
\* or is missing or cut short and the call ends with is_trained = False.
LoadRead ==
    /\ lpc < Len(SaveOrder)
    /\ LET a == SaveOrder[lpc + 1]
       IN  IF Readable(files[a])
           THEN /\ engine2' = [engine2 EXCEPT ![a] = files[a]]
                /\ lpc' = lpc + 1
           ELSE /\ engine2' = [engine2 EXCEPT !.is_trained = FALSE]
                /\ lpc' = 0
    /\ UNCHANGED <<run, engine, files, tpc, ipc, seen>>
    /\ UNCHANGED otherVars

\* load_models, line 298: all four files were read.
LoadDone ==
    /\ lpc = Len(SaveOrder)
    /\ engine2' = [engine2 EXCEPT !.is_trained = TRUE]
    /\ lpc' = 0
    /\ UNCHANGED <<run, engine, files, tpc, ipc, seen>>
    /\ UNCHANGED otherVars

\* Both processes have just imported the module on a new installation.
InitConc ==
    /\ PersonaIdle
    /\ PredictIdle
    /\ StoreIdle
    /\ ConcIdle
    /\ AnalysisIdle
    /\ HourlyIdle
    /\ AnomalyIdle
    /\ CleanIdle
    /\ FeatureIdle
    /\ PathIdle
    /\ HistoryIdle
    /\ SetupIdle
    /\ engine = load_models(FreshEngine, NoFiles)

TrainerStep ==
    \/ TrainBegin \/ FitScaler \/ FitQuantity \/ FitQuality \/ FitClassifier
    \/ SetTrained \/ OpenFile \/ DumpFile

InferenceStep ==
    InferCheck \/ InferTransform \/ InferPredictQty \/ InferPredictQly \/ InferReturn

LoaderStep == LoadRead \/ LoadDone

NextConc == TrainerStep \/ InferenceStep \/ LoaderStep

SpecConc == InitConc /\ [][NextConc]_vars

(***************************************************************************)
(* generate_analysis: the gates and the scoring.  Scores and adjustments   *)
(* are kept in tenths, ratios are compared by cross-multiplication.        *)
(***************************************************************************)
Abs(x) == IF x < 0 THEN 0 - x ELSE x

\* selected_date as <<month, day>>: New Year's Eve, a day of the peak season,
\* a day of the late season, a day out of season.
Dates == { <<12, 31>>, <<1, 10>>, <<3, 10>>, <<6, 10>> }

TotalValues == {0, 60, 88, 100, 110, 140}
AverageValues == {0, 100}
FreshValues == {60, 75, 80, 83, 90}
AverageFreshValues == {0, 80}
HoursProcessedValues == {0, 5, 10}
PeakValues == {10, 15, 20, 30}

\* trend_data: absent, flat, or a tons trend and a fresh trend of either sign.
TrendValues ==
    { [has_trend_data |-> FALSE, tons_trend_percent |-> 0, fresh_trend_percent |-> 0],
      [has_trend_data |-> TRUE, tons_trend_percent |-> 0, fresh_trend_percent |-> 0] }
    \cup
    { [has_trend_data |-> TRUE, tons_trend_percent |-> t, fresh_trend_percent |-> f] :
        t \in {0 - 45, 25}, f \in {0 - 20, 11} }

\* Where the call raises: nowhere, on its arguments (line 2015), or inside a
\* helper called after the gates.
RaiseValues == {"none", "arguments", "helper"}

\* Mutant: a day without volume gets the neutral scores.
calculate_scores_neutral_without_volume(a) ==
    IF a.today_total <= 0
    THEN [quantity |-> 3, quality |-> 3, stability |-> 3]
    ELSE LET t    == a.today_total
             avg  == a.avg_daily_tons
             diff == a.type_1_percent - a.avg_fresh_percent
             ph   == a.peak_hour_tons * a.hours_processed
         IN  [ quantity |->
                 IF avg > 0
                 THEN IF 100 * (t - avg) > 15 * avg THEN 5
                      ELSE IF 100 * (t - avg) > 5 * avg THEN 4
                      ELSE IF 100 * (t - avg) < (0 - 20) * avg THEN 1
                      ELSE IF 100 * (t - avg) < (0 - 10) * avg THEN 2
                      ELSE 3
                 ELSE 3,
               quality |->
                 IF a.avg_fresh_percent > 0
                 THEN IF diff > 5 THEN 5
                      ELSE IF diff > 2 THEN 4
                      ELSE IF diff < 0 - 8 THEN 1
                      ELSE IF diff < 0 - 4 THEN 2
                      ELSE 3
                 ELSE 3,
               stability |->
                 IF a.hours_processed > 0
                 THEN IF 10 * ph < 13 * t THEN 5
                      ELSE IF 10 * ph < 16 * t THEN 4
                      ELSE IF 10 * ph < 25 * t THEN 2
                      ELSE 1
                 ELSE 3 ]

\* _calculate_scores
calculate_scores(a) ==
    IF a.today_total <= 0
    THEN [quantity |-> 0, quality |-> 0, stability |-> 0]
    ELSE LET t    == a.today_total
             avg  == a.avg_daily_tons
             diff == a.type_1_percent - a.avg_fresh_percent
             ph   == a.peak_hour_tons * a.hours_processed
         IN  [ quantity |->
                 IF avg > 0
                 THEN IF 100 * (t - avg) > 15 * avg THEN 5
                      ELSE IF 100 * (t - avg) > 5 * avg THEN 4
                      ELSE IF 100 * (t - avg) < (0 - 20) * avg THEN 1
                      ELSE IF 100 * (t - avg) < (0 - 10) * avg THEN 2
                      ELSE 3
                 ELSE 3,
               quality |->
                 IF a.avg_fresh_percent > 0
                 THEN IF diff > 5 THEN 5
                      ELSE IF diff > 2 THEN 4
                      ELSE IF diff < 0 - 8 THEN 1
                      ELSE IF diff < 0 - 4 THEN 2
                      ELSE 3
                 ELSE 3,
               stability |->
                 IF a.hours_processed > 0
                 THEN IF 10 * ph < 13 * t THEN 5
                      ELSE IF 10 * ph < 16 * t THEN 4
                      ELSE IF 10 * ph < 25 * t THEN 2
                      ELSE 1
                 ELSE 3 ]

\* _get_trend_context: the score only.
get_trend_context(a) ==
    IF ~a.has_trend_data THEN 0
    ELSE (IF a.tons_trend_percent > 5 THEN 1
          ELSE IF a.tons_trend_percent < 0 - 5 THEN 0 - 1 ELSE 0)
       + (IF a.fresh_trend_percent > 2 THEN 1
          ELSE IF a.fresh_trend_percent < 0 - 2 THEN 0 - 1 ELSE 0)

\* _calculate_efficiency_metrics: the two keys the scoring reads, each as a
\* fraction num / den when the key is present; both are 0 on a day without
\* volume.
calculate_efficiency_metrics(a) ==
    IF a.today_total <= 0
    THEN [ has_volume_efficiency  |-> TRUE, volume_num  |-> 0, volume_den  |-> 1,
           has_quality_efficiency |-> TRUE, quality_num |-> 0, quality_den |-> 1 ]
    ELSE [ has_volume_efficiency  |-> a.avg_daily_tons > 0,
           volume_num             |-> 100 * a.today_total,
           volume_den             |-> a.avg_daily_tons,
           has_quality_efficiency |-> a.avg_fresh_percent > 0,
           quality_num            |-> 100 * a.type_1_percent,
           quality_den            |-> a.avg_fresh_percent ]

\* _advanced_pattern_recognition: seasonal_pattern and anomaly_score (as the
\* fraction num / den).  avg_total is assigned only inside the hourly block
\* (hours_processed > 0 and today_total > 0); without it the anomaly scoring
\* raises, the except clause prints, and anomaly_score keeps its initial 0.0.
advanced_pattern_recognition(a) ==
    LET seasonal == IF a.month \in {12, 1, 2} THEN "peak_season"
                    ELSE IF a.month \in {3, 4} THEN "late_season"
                    ELSE "off_season"
        avg   == a.avg_daily_tons
        af    == a.avg_fresh_percent
        da    == IF avg > 0 THEN avg ELSE 1
        df    == IF af > 0 THEN af ELSE 1
        vdev  == Abs(a.today_total - avg)
        qdev  == Abs(a.type_1_percent - af)
        tons  == Abs(a.tons_trend_percent)
        fresh == Abs(a.fresh_trend_percent)
        den   == 100 * da * df
        sum   == (IF avg > 0 /\ 10 * vdev > 3 * avg THEN 40 * vdev * df ELSE 0)
               + (IF af > 0 /\ 100 * qdev > 15 * af THEN 30 * qdev * da ELSE 0)
               + (IF a.has_trend_data /\ tons > 10 THEN tons * da * df ELSE 0)
               + (IF a.has_trend_data /\ fresh > 5 THEN 2 * fresh * da * df ELSE 0)
    IN  IF a.hours_processed > 0 /\ a.today_total > 0
        THEN [ seasonal_pattern |-> seasonal,
               anomaly_num |-> IF sum > den THEN den ELSE sum, anomaly_den |-> den ]
        ELSE [ seasonal_pattern |-> seasonal, anomaly_num |-> 0, anomaly_den |-> 1 ]

\* Lines 2119-2149: pattern_adjustment, in tenths.
pattern_adjustment(patterns, metrics) ==
      (IF 10 * patterns.anomaly_num > 7 * patterns.anomaly_den THEN 0 - 15
       ELSE IF 10 * patterns.anomaly_num > 4 * patterns.anomaly_den THEN 0 - 5
       ELSE IF 10 * patterns.anomaly_num < 2 * patterns.anomaly_den THEN 3
       ELSE 0)
    + (IF metrics.has_volume_efficiency
       THEN IF metrics.volume_num > 120 * metrics.volume_den THEN 5
            ELSE IF metrics.volume_num < 80 * metrics.volume_den THEN 0 - 5
            ELSE 0
       ELSE 0)
    + (IF metrics.has_quality_efficiency
       THEN IF metrics.quality_num > 105 * metrics.quality_den THEN 3
            ELSE IF metrics.quality_num < 95 * metrics.quality_den THEN 0 - 3
            ELSE 0
       ELSE 0)
    + (IF patterns.seasonal_pattern = "peak_season" THEN 2
       ELSE IF patterns.seasonal_pattern = "late_season" THEN 0 - 1
       ELSE 0)

\* Line 2117: base_weighted_score, in tenths.
base_weighted_score(sc) == 4 * sc.quantity + 4 * sc.quality + 2 * sc.stability

\* Mutant: the rescaling of line 2154 without max and min.
final_score_10_point_unbounded(ai_enhanced_score) ==
    20 + 2 * (ai_enhanced_score - 10)

\* Line 2154: max(1.0, min(10.0, 2.0 + ((ai_enhanced_score - 1) / 4.0) * 8.0)),
\* argument and value in tenths.
final_score_10_point(ai_enhanced_score) ==
    LET rescaled == 20 + 2 * (ai_enhanced_score - 10)
        capped   == IF rescaled > 100 THEN 100 ELSE rescaled
    IN  IF capped < 10 THEN 10 ELSE capped

\* The helpers generate_analysis calls once no gate applies: scoring, trend
\* context, anomaly detection, classification, efficiency metrics, pattern
\* recognition and forecasting.
AnalysisHelpers ==
    { "_calculate_scores", "_get_trend_context", "_local_ai_anomaly_detection",
      "_select_persona_name", "_calculate_efficiency_metrics",
      "_advanced_pattern_recognition", "_generate_predictive_insights",
      "_generate_ai_predictions" }

\* The results that carry no score: the uniform error result of the except
\* branch and the placeholder of each gate.  The holiday placeholder and the
\* error result have no "anomalies" and no "efficiency_metrics" key; the
\* other three placeholders carry both, empty.
Placeholder(kind) ==
    IF kind \in {"no_data", "off_season", "no_comparison"}
    THEN [NoAnalysis EXCEPT !.kind = kind, !.anomalies = "empty",
                            !.efficiency_metrics = "empty"]
    ELSE [NoAnalysis EXCEPT !.kind = kind]

\* Mutant: generate_analysis without its try/except.
generate_analysis_no_except(a) ==
    IF a.raises = "arguments" THEN [NoAnalysis EXCEPT !.kind = "raised"]
    ELSE IF (a.month = 12 /\ a.day = 31) \/ (a.month = 1 /\ a.day \in {1, 2})
    THEN Placeholder("holiday")
    ELSE IF a.today_total <= 0 THEN Placeholder("no_data")
    ELSE IF ~(a.month >= 12 \/ a.month <= 4) THEN Placeholder("off_season")
    ELSE IF ~a.has_comparison_data THEN Placeholder("no_comparison")
    ELSE IF a.raises = "helper" THEN [NoAnalysis EXCEPT !.kind = "raised", !.calls = {"_calculate_scores"}]
    ELSE LET sc       == calculate_scores(a)
             trend    == get_trend_context(a)
             persona  == select_persona_name(sc, trend, a.hours_processed)
             metrics  == calculate_efficiency_metrics(a)
             patterns == advanced_pattern_recognition(a)
             ai       == base_weighted_score(sc) + pattern_adjustment(patterns, metrics)
         IN  [ kind |-> "analysis", ai_enhanced |-> TRUE,
               persona_name |-> persona, scores |-> sc,
               ai_enhanced_score |-> ai,
               overall_score_value |-> final_score_10_point(ai),
               anomalies |-> "computed", efficiency_metrics |-> "computed",
               calls |-> AnalysisHelpers ]

\* Mutant: generate_analysis testing the season before today's volume.
generate_analysis_season_first(a) ==
    IF a.raises = "arguments" THEN Placeholder("error")
    ELSE IF (a.month = 12 /\ a.day = 31) \/ (a.month = 1 /\ a.day \in {1, 2})
    THEN Placeholder("holiday")
    ELSE IF ~(a.month >= 12 \/ a.month <= 4) THEN Placeholder("off_season")
    ELSE IF a.today_total <= 0 THEN Placeholder("no_data")
    ELSE IF ~a.has_comparison_data THEN Placeholder("no_comparison")
    ELSE IF a.raises = "helper"
    THEN [Placeholder("error") EXCEPT !.calls = {"_calculate_scores"}]
    ELSE LET sc       == calculate_scores(a)
             trend    == get_trend_context(a)
             persona  == select_persona_name(sc, trend, a.hours_processed)
             metrics  == calculate_efficiency_metrics(a)
             patterns == advanced_pattern_recognition(a)
             ai       == base_weighted_score(sc) + pattern_adjustment(patterns, metrics)
         IN  [ kind |-> "analysis", ai_enhanced |-> TRUE,
               persona_name |-> persona, scores |-> sc,
               ai_enhanced_score |-> ai,
               overall_score_value |-> final_score_10_point(ai),
               anomalies |-> "computed", efficiency_metrics |-> "computed",
               calls |-> AnalysisHelpers ]

\* generate_analysis.  The whole body is inside one try; the except branch
\* returns the uniform error result.  A failing helper is taken to be the
\* first one called after the gates, _calculate_scores.
generate_analysis(a) ==
    IF a.raises = "arguments" THEN Placeholder("error")
    ELSE IF (a.month = 12 /\ a.day = 31) \/ (a.month = 1 /\ a.day \in {1, 2})
    THEN Placeholder("holiday")
    ELSE IF a.today_total <= 0 THEN Placeholder("no_data")
    ELSE IF ~(a.month >= 12 \/ a.month <= 4) THEN Placeholder("off_season")
    ELSE IF ~a.has_comparison_data THEN Placeholder("no_comparison")
    ELSE IF a.raises = "helper"
    THEN [Placeholder("error") EXCEPT !.calls = {"_calculate_scores"}]
    ELSE LET sc       == calculate_scores(a)
             trend    == get_trend_context(a)
             persona  == select_persona_name(sc, trend, a.hours_processed)
             metrics  == calculate_efficiency_metrics(a)
             patterns == advanced_pattern_recognition(a)
             ai       == base_weighted_score(sc) + pattern_adjustment(patterns, metrics)
         IN  IF persona \notin DOMAIN PERSONAS
             THEN [Placeholder("error") EXCEPT !.calls =
                       { "_calculate_scores", "_get_trend_context",
                         "_local_ai_anomaly_detection", "_select_persona_name" }]
             ELSE [ kind |-> "analysis", ai_enhanced |-> TRUE,
                    persona_name |-> persona, scores |-> sc,
                    ai_enhanced_score |-> ai,
                    overall_score_value |-> final_score_10_point(ai),
                    anomalies |-> "computed", efficiency_metrics |-> "computed",
                    calls |-> AnalysisHelpers ]

InitAnalysis ==
    /\ PersonaIdle
    /\ EngineIdle
    /\ PredictIdle
    /\ StoreIdle
    /\ ConcIdle
    /\ HourlyIdle
    /\ AnomalyIdle
    /\ CleanIdle
    /\ FeatureIdle
    /\ PathIdle
    /\ HistoryIdle
    /\ SetupIdle
    /\ analysis_out = NoAnalysis
    /\ \E d \in Dates, t \in TotalValues, avg \in AverageValues, f \in FreshValues,
          af \in AverageFreshValues, h \in HoursProcessedValues, p \in PeakValues,
          tr \in TrendValues, c \in BOOLEAN, r \in RaiseValues :
          analysis_in =
            [ month |-> d[1], day |-> d[2], today_total |-> t, avg_daily_tons |-> avg,
              type_1_percent |-> f, avg_fresh_percent |-> af, has_comparison_data |-> c,
              hours_processed |-> h, peak_hour_tons |-> p,
              has_trend_data |-> tr.has_trend_data,
              tons_trend_percent |-> tr.tons_trend_percent,
              fresh_trend_percent |-> tr.fresh_trend_percent, raises |-> r ]

GenerateAnalysis ==
    /\ analysis_out = NoAnalysis
    /\ analysis_out' = generate_analysis(analysis_in)
    /\ UNCHANGED analysis_in
    /\ UNCHANGED <<engine, personaVars, predictVars, storeVars, concVars>>
    /\ UNCHANGED <<hourlyVars, anomalyVars, cleanVars, featureVars, pathVars, historyVars, setupVars>>

NextAnalysis == GenerateAnalysis

SpecAnalysis == InitAnalysis /\ [][NextAnalysis]_vars

(***************************************************************************)
(* AdvancedHourlyAnalyzer (src/advanced_hourly_analysis.py).  A batch is   *)
(* the list of period records; scores are rounded down to whole points,    *)
(* the overall index is kept in hundredths of a point, and every other     *)
(* ratio is kept as a fraction or compared by cross-multiplication.        *)
(***************************************************************************)
MaxPrefix == 2     \* periods of a batch that are drawn one by one
MaxPad == 25       \* periods of a batch that repeat one record
MaxTons == 3       \* largest volume of one period

HoursPerDay == 24
HighThreshold == 100
MediumThreshold == 50
LowThreshold == 20

\* One period record: volume, truck count and the volume of each line.
PeriodValues ==
    { [Total_Tons |-> t, Total_Count |-> c,
       A_Tons |-> IF line_a THEN t ELSE 0, B_Tons |-> IF line_a THEN 0 ELSE t] :
        t \in {0, MaxTons}, c \in {0, 1}, line_a \in BOOLEAN }

RECURSIVE SeqsUpTo(_, _)
SeqsUpTo(S, n) ==
    IF n = 0 THEN { << >> }
    ELSE LET shorter == SeqsUpTo(S, n - 1)
         IN  shorter \cup { Append(q, x) : q \in { r \in shorter : Len(r) = n - 1 }, x \in S }

\* The batches of the model: a few free periods, then one record repeated.
Batches ==
    { prefix \o [i \in 1..k |-> pad] :
        prefix \in SeqsUpTo(PeriodValues, MaxPrefix), pad \in PeriodValues, k \in 0..MaxPad }

RECURSIVE SumOver(_, _, _)
SumOver(df, Term(_), i) == IF i = 0 THEN 0 ELSE Term(df[i]) + SumOver(df, Term, i - 1)

ColumnSum(df, column) == LET Term(rec) == rec[column] IN SumOver(df, Term, Len(df))

SquareSum(df, column) == LET Term(rec) == rec[column] * rec[column] IN SumOver(df, Term, Len(df))

\* len(df[df['Total_Tons'] > 0])
ActiveHours(df) == Cardinality({ i \in 1..Len(df) : df[i].Total_Tons > 0 })

\* n * sum(x^2) - sum(x)^2: the squared deviations of a column, times n.
Spread(df, column) ==
    Len(df) * SquareSum(df, column) - ColumnSum(df, column) * ColumnSum(df, column)

RECURSIVE SqrtBetween(_, _, _)
SqrtBetween(x, lo, hi) ==
    IF lo >= hi THEN lo
    ELSE LET mid == (lo + hi + 1) \div 2
         IN  IF mid * mid <= x THEN SqrtBetween(x, mid, hi) ELSE SqrtBetween(x, lo, mid - 1)

\* The square root, rounded down.
Sqrt(x) == SqrtBetween(x, 0, IF x < 46340 THEN x ELSE 46340)

Min2(a, b) == IF a < b THEN a ELSE b
Max2(a, b) == IF a > b THEN a ELSE b

\* The value of the sorted column at position k (from 0).
OrderStatistic(df, column, k) ==
    CHOOSE v \in { df[i][column] : i \in 1..Len(df) } :
        /\ Cardinality({ i \in 1..Len(df) : df[i][column] < v }) <= k
        /\ k < Cardinality({ i \in 1..Len(df) : df[i][column] <= v })

\* The sentinel of an analyzer that was given too short a batch.
InsufficientData == [error |-> "insufficient data"]

\* _calculate_performance_metrics
calculate_performance_metrics(df) ==
    LET total_tons   == ColumnSum(df, "Total_Tons")
        total_trucks == ColumnSum(df, "Total_Count")
        active_hours == ActiveHours(df)
        Hours(lo, hi) ==
            Cardinality({ i \in 1..Len(df) : df[i].Total_Tons >= lo /\ df[i].Total_Tons < hi })
    IN  [ total_tons   |-> total_tons,
          total_trucks |-> total_trucks,
          active_hours |-> active_hours,
          performance_distribution |->
              [ high   |-> Cardinality({ i \in 1..Len(df) : df[i].Total_Tons >= HighThreshold }),
                medium |-> Hours(MediumThreshold, HighThreshold),
                low    |-> Hours(LowThreshold, MediumThreshold),
                none   |-> Cardinality({ i \in 1..Len(df) : df[i].Total_Tons < LowThreshold }) ],
          efficiency_ratio |-> [num |-> active_hours, den |-> HoursPerDay] ]

\* _analyze_hourly_trends: the direction from the slope of the regression of
\* Total_Tons on the position 0..n-1, and the two half averages.
analyze_hourly_trends(df) ==
    IF Len(df) < 3 THEN InsufficientData
    ELSE LET n    == Len(df)
             sx   == (n * (n - 1)) \div 2
             sxx  == ((n - 1) * n * (2 * n - 1)) \div 6
             sy   == ColumnSum(df, "Total_Tons")
             Pos(i) == (i - 1) * df[i].Total_Tons
             sxy  == LET RECURSIVE Acc(_)
                         Acc(i) == IF i = 0 THEN 0 ELSE Pos(i) + Acc(i - 1)
                     IN  Acc(n)
             snum == n * sxy - sx * sy
             sden == n * sxx - sx * sx
             half == n \div 2
             first  == SumOver(SubSeq(df, 1, half), LAMBDA rec : rec.Total_Tons, half)
             second == sy - first
         IN  [ trend_direction |->
                 IF 2 * snum > sden THEN "increasing"
                 ELSE IF 2 * snum < 0 - sden THEN "decreasing"
                 ELSE "stable",
               slope           |-> [num |-> snum, den |-> sden],
               first_half_avg  |-> [num |-> first, den |-> half],
               second_half_avg |-> [num |-> second, den |-> n - half] ]

\* _analyze_variability: the stability level from the coefficient of
\* variation of the population, cv^2 = 10^4 * Spread / sum^2.
analyze_variability(df) ==
    IF Len(df) < 2 THEN InsufficientData
    ELSE LET sy     == ColumnSum(df, "Total_Tons")
             spread == Spread(df, "Total_Tons")
         IN  [ mean |-> [num |-> sy, den |-> Len(df)],
               variance |-> [num |-> spread, den |-> Len(df) * Len(df)],
               stability_level |->
                 IF sy = 0 THEN "very_stable"
                 ELSE IF 25 * spread < sy * sy THEN "very_stable"
                 ELSE IF 25 * spread < 4 * sy * sy THEN "stable"
                 ELSE IF 25 * spread < 9 * sy * sy THEN "moderate"
                 ELSE "unstable" ]

\* _find_consecutive_periods
RECURSIVE find_consecutive_from_without_last(_, _, _, _)
\* Mutant: the group still open at the end of the scan is not kept.
find_consecutive_from_without_last(peak_hours, i, current_group, consecutive_groups) ==
    IF i > Len(peak_hours)
    THEN consecutive_groups
    ELSE IF peak_hours[i] = peak_hours[i - 1] + 1
    THEN find_consecutive_from_without_last(peak_hours, i + 1,
                                            Append(current_group, peak_hours[i]),
                                            consecutive_groups)
    ELSE find_consecutive_from_without_last(peak_hours, i + 1, << peak_hours[i] >>,
                                            IF Len(current_group) > 1
                                            THEN Append(consecutive_groups, current_group)
                                            ELSE consecutive_groups)

RECURSIVE find_consecutive_from(_, _, _, _)
find_consecutive_from(peak_hours, i, current_group, consecutive_groups) ==
    IF i > Len(peak_hours)
    THEN IF Len(current_group) > 1 THEN Append(consecutive_groups, current_group)
         ELSE consecutive_groups
    ELSE IF peak_hours[i] = peak_hours[i - 1] + 1
    THEN find_consecutive_from(peak_hours, i + 1, Append(current_group, peak_hours[i]),
                               consecutive_groups)
    ELSE find_consecutive_from(peak_hours, i + 1, << peak_hours[i] >>,
                               IF Len(current_group) > 1
                               THEN Append(consecutive_groups, current_group)
                               ELSE consecutive_groups)

find_consecutive_periods(peak_hours) ==
    IF peak_hours = << >> THEN << >>
    ELSE find_consecutive_from(peak_hours, 2, << peak_hours[1] >>, << >>)

\* The indices (from 0) of the periods whose volume is at least the 75th
\* percentile, in ascending order.  quantile(0.75) interpolates linearly
\* between the sorted values around position 0.75 * (n - 1).
PeakHours(df) ==
    LET n  == Len(df)
        lo == (3 * (n - 1)) \div 4
        fr == (3 * (n - 1)) % 4
        vlo == OrderStatistic(df, "Total_Tons", lo)
        vhi == IF fr = 0 THEN vlo ELSE OrderStatistic(df, "Total_Tons", lo + 1)
        IsPeak(i) == 4 * df[i].Total_Tons >= 4 * vlo + fr * (vhi - vlo)
        RECURSIVE Upto(_)
        Upto(i) == IF i = 0 THEN << >>
                   ELSE IF IsPeak(i) THEN Append(Upto(i - 1), i - 1) ELSE Upto(i - 1)
    IN  Upto(n)

\* _identify_peak_performance_periods
identify_peak_performance_periods(df) ==
    IF Len(df) < 3 THEN InsufficientData
    ELSE LET peak_hours == PeakHours(df)
         IN  [ peak_periods_count |-> Len(peak_hours),
               peak_hours         |-> peak_hours,
               consecutive_peaks  |-> find_consecutive_periods(peak_hours),
               peak_performance_ratio |-> [num |-> Len(peak_hours), den |-> Len(df)] ]

\* Mutant: the correlation analysis accepts a batch of three periods.
analyze_hourly_correlations_from_three(df) ==
    IF Len(df) < 3 THEN InsufficientData
    ELSE LET a == ColumnSum(df, "A_Tons")
             b == ColumnSum(df, "B_Tons")
         IN  [ balance_ratio |-> IF b > 0 THEN [num |-> a, den |-> b] ELSE [num |-> 0, den |-> 1],
               balance_assessment |->
                 IF b > 0 /\ 10 * a >= 8 * b /\ 10 * a <= 12 * b THEN "balanced"
                 ELSE "unbalanced" ]

\* _analyze_hourly_correlations: the balance of the two lines; the
\* correlation coefficients themselves are not represented.
analyze_hourly_correlations(df) ==
    IF Len(df) < 4 THEN InsufficientData
    ELSE LET a == ColumnSum(df, "A_Tons")
             b == ColumnSum(df, "B_Tons")
         IN  [ balance_ratio |-> IF b > 0 THEN [num |-> a, den |-> b] ELSE [num |-> 0, den |-> 1],
               balance_assessment |->
                 IF b > 0 /\ 10 * a >= 8 * b /\ 10 * a <= 12 * b THEN "balanced"
                 ELSE "unbalanced" ]

\* Mutant: the active ratio is not capped at 100.
calculate_efficiency_score_uncapped(df) ==
    (100 * ActiveHours(df)) \div HoursPerDay

\* _calculate_efficiency_score
calculate_efficiency_score(df) ==
    Min2(100, (100 * ActiveHours(df)) \div HoursPerDay)

\* _calculate_consistency_score: 100 minus the coefficient of variation of
\* the sample, cv^2 = 10^4 * n * Spread / ((n - 1) * sum^2).
calculate_consistency_score(df) ==
    IF Len(df) < 2 THEN 0
    ELSE LET n  == Len(df)
             sy == ColumnSum(df, "Total_Tons")
             cv == IF sy > 0
                   THEN Sqrt((10000 * n * Spread(df, "Total_Tons")) \div ((n - 1) * sy * sy))
                   ELSE 100
         IN  Min2(100, Max2(0, 100 - cv))

\* _calculate_productivity_score: tons per truck against 10 tons.
calculate_productivity_score(df) ==
    LET total_tons   == ColumnSum(df, "Total_Tons")
        total_trucks == ColumnSum(df, "Total_Count")
    IN  IF total_trucks = 0 THEN 0
        ELSE Min2(100, (10 * total_tons) \div total_trucks)

\* _calculate_balance_score: 100 - 200 * |A / (A + B) - 0.5|.
calculate_balance_score(df) ==
    LET total_a == ColumnSum(df, "A_Tons")
        total_b == ColumnSum(df, "B_Tons")
    IN  IF total_a + total_b = 0 THEN 0
        ELSE Max2(0, (100 * (total_a + total_b) - 100 * Abs(total_a - total_b))
                         \div (total_a + total_b))

\* _calculate_overall_performance_index; overall_index in hundredths.
calculate_overall_performance_index(df) ==
    IF Len(df) = 0 THEN InsufficientData
    ELSE LET efficiency_score   == calculate_efficiency_score(df)
             consistency_score  == calculate_consistency_score(df)
             productivity_score == calculate_productivity_score(df)
             balance_score      == calculate_balance_score(df)
             overall_index      == 30 * efficiency_score + 25 * consistency_score
                                   + 25 * productivity_score + 20 * balance_score
         IN  [ overall_index |-> overall_index,
               performance_level |->
                 IF overall_index >= 8000 THEN "excellent"
                 ELSE IF overall_index >= 7000 THEN "good"
                 ELSE IF overall_index >= 6000 THEN "fair"
                 ELSE IF overall_index >= 5000 THEN "poor"
                 ELSE "very_poor",
               component_scores |->
                 [ efficiency   |-> efficiency_score,
                   consistency  |-> consistency_score,
                   productivity |-> productivity_score,
                   balance      |-> balance_score ] ]

\* analyze_hourly_performance
analyze_hourly_performance(data) ==
    IF data = << >> THEN InsufficientData
    ELSE [ performance_metrics       |-> calculate_performance_metrics(data),
           trend_analysis            |-> analyze_hourly_trends(data),
           variability_analysis      |-> analyze_variability(data),
           peak_performance          |-> identify_peak_performance_periods(data),
           correlation_analysis      |-> analyze_hourly_correlations(data),
           overall_performance_index |-> calculate_overall_performance_index(data) ]

InitHourly ==
    /\ PersonaIdle
    /\ EngineIdle
    /\ PredictIdle
    /\ StoreIdle
    /\ ConcIdle
    /\ AnalysisIdle
    /\ AnomalyIdle
    /\ CleanIdle
    /\ FeatureIdle
    /\ PathIdle
    /\ HistoryIdle
    /\ SetupIdle
    /\ hourly_data \in Batches
    /\ hourly_out = NoHourly

AnalyzeHourlyPerformance ==
    /\ hourly_out = NoHourly
    /\ hourly_out' = analyze_hourly_performance(hourly_data)
    /\ UNCHANGED hourly_data
    /\ UNCHANGED <<engine, personaVars, predictVars, storeVars, concVars>>
    /\ UNCHANGED <<analysisVars, anomalyVars, cleanVars, featureVars, pathVars, historyVars, setupVars>>

NextHourly == AnalyzeHourlyPerformance

SpecHourly == InitHourly /\ [][NextHourly]_vars

\* Batches of PeakBatch periods in which any set of periods carries the
\* volume MaxTons and the others none: with two or more of them, the peak
\* hours are exactly that set.
PeakBatch == 8

PeakBatches ==
    { [i \in 1..PeakBatch |->
          [ Total_Tons |-> IF (i - 1) \in busy THEN MaxTons ELSE 0, Total_Count |-> 1,
            A_Tons |-> IF (i - 1) \in busy THEN MaxTons ELSE 0, B_Tons |-> 0 ]] :
        busy \in SUBSET (0..(PeakBatch - 1)) }

InitPeaks ==
    /\ PersonaIdle
    /\ EngineIdle
    /\ PredictIdle
    /\ StoreIdle
    /\ ConcIdle
    /\ AnalysisIdle
    /\ AnomalyIdle
    /\ CleanIdle
    /\ FeatureIdle
    /\ PathIdle
    /\ HistoryIdle
    /\ SetupIdle
    /\ hourly_data \in PeakBatches
    /\ hourly_out = NoHourly

SpecPeaks == InitPeaks /\ [][NextHourly]_vars

(***************************************************************************)
(* _local_ai_anomaly_detection (src/analysis.py).  An event is recorded by *)
(* the rule that emitted it and by which of its two wordings was used.     *)
(***************************************************************************)
\* today_total: none, and two pairs at equal distance below and above the
\* average.
DetectorTotals == {0, 40, 60, 140, 160}
DetectorAverages == {0, 100}

\* std_daily_tons: the key is absent (the default 0.2 * avg_daily_tons is
\* used), or holds 0, or holds 25.
DeviationValues ==
    { [has_std |-> FALSE, std_daily_tons |-> 0],
      [has_std |-> TRUE, std_daily_tons |-> 0],
      [has_std |-> TRUE, std_daily_tons |-> 25] }

\* <<type_1_percent, avg_fresh_percent>>
FreshPairs == { <<65, 80>>, <<80, 80>>, <<95, 80>>, <<95, 0>> }

\* <<hours_processed, peak_hour_tons>>
HourPairs == { <<0, 0>>, <<0, 10>>, <<24, 0>>, <<24, 10>> }

\* <<line_a_total, line_b_total>> and <<type_1_total, type_2_total>>
LinePairs == { <<0, 0>>, <<20, 0>>, <<0, 20>>, <<20, 3>>, <<3, 20>>, <<3, 3>> }
TypePairs == { <<0, 0>>, <<20, 0>>, <<0, 20>>, <<20, 1>>, <<1, 20>>, <<30, 20>> }

\* The argument that is not what the code expects: none, stats is not a
\* map, or the named key holds None.
BadValues ==
    { "none", "stats", "std_daily_tons", "avg_fresh_percent", "hours_processed",
      "peak_hour_tons", "line_a_total", "type_1_total" }

NoEvent == [raises |-> FALSE, events |-> << >>]
Raises == [raises |-> TRUE, events |-> << >>]
Event(rule, wording) == [raises |-> FALSE, events |-> << [rule |-> rule, wording |-> wording] >>]

\* Mutant: the volume rule only looks above the average.
volume_rule_above_only(a) ==
    IF a.avg_daily_tons > 0 /\ a.bad = "std_daily_tons" THEN Raises
    ELSE LET std5 == IF a.has_std THEN 5 * a.std_daily_tons ELSE a.avg_daily_tons
         IN  IF a.avg_daily_tons > 0 /\ std5 > 0
                /\ 5 * (a.today_total - a.avg_daily_tons) > 2 * std5
             THEN Event("volume", "above")
             ELSE NoEvent

\* Rule 1, lines 327-336: the z-score of today's volume; std5 is five times
\* the standard deviation.
volume_rule(a) ==
    IF a.avg_daily_tons > 0 /\ a.bad = "std_daily_tons" THEN Raises
    ELSE LET std5 == IF a.has_std THEN 5 * a.std_daily_tons ELSE a.avg_daily_tons
         IN  IF a.avg_daily_tons > 0 /\ std5 > 0
                /\ 5 * Abs(a.today_total - a.avg_daily_tons) > 2 * std5
             THEN IF a.today_total > a.avg_daily_tons
                  THEN Event("volume", "above")
                  ELSE Event("volume", "below")
             ELSE NoEvent

\* Rule 2, lines 338-345.
quality_rule(a) ==
    IF a.bad = "avg_fresh_percent" THEN Raises
    ELSE IF a.avg_fresh_percent > 0 /\ Abs(a.type_1_percent - a.avg_fresh_percent) > 10
    THEN IF a.type_1_percent > a.avg_fresh_percent
         THEN Event("quality", "above")
         ELSE Event("quality", "below")
    ELSE NoEvent

\* Rule 3, lines 347-356: (today / hours) / (avg / 24) against 1.5 and 0.5.
rate_rule(a) ==
    IF a.bad = "hours_processed" THEN Raises
    ELSE IF a.hours_processed > 0 /\ a.avg_daily_tons > 0
    THEN IF 48 * a.today_total > 3 * a.hours_processed * a.avg_daily_tons
         THEN Event("rate", "high")
         ELSE IF 48 * a.today_total < a.hours_processed * a.avg_daily_tons
         THEN Event("rate", "low")
         ELSE NoEvent
    ELSE NoEvent

\* Rule 4, lines 358-365: peak / (today / hours) against 2.5.
peak_rule(a) ==
    IF a.bad = "hours_processed" THEN Raises
    ELSE IF a.hours_processed > 0 /\ a.today_total > 0 /\ a.bad = "peak_hour_tons" THEN Raises
    ELSE IF a.hours_processed > 0 /\ a.today_total > 0 /\ a.peak_hour_tons > 0
            /\ 2 * a.peak_hour_tons * a.hours_processed > 5 * a.today_total
    THEN Event("peak", "high")
    ELSE NoEvent

\* Rule 5, lines 367-376: the share of line A against 70 and 30.
line_rule(a) ==
    IF a.bad = "line_a_total" THEN Raises
    ELSE IF a.line_a_total > 0 /\ a.line_b_total > 0
    THEN IF 100 * a.line_a_total > 70 * (a.line_a_total + a.line_b_total)
         THEN Event("line", "A")
         ELSE IF 100 * a.line_a_total < 30 * (a.line_a_total + a.line_b_total)
         THEN Event("line", "B")
         ELSE NoEvent
    ELSE NoEvent

\* Rule 6, lines 378-387: the share of type 1 against 95 and 50.
type_rule(a) ==
    IF a.bad = "type_1_total" THEN Raises
    ELSE IF a.type_1_total > 0 /\ a.type_2_total > 0
    THEN IF 100 * a.type_1_total > 95 * (a.type_1_total + a.type_2_total)
         THEN Event("type", "fresh")
         ELSE IF 100 * a.type_1_total < 50 * (a.type_1_total + a.type_2_total)
         THEN Event("type", "burnt")
         ELSE NoEvent
    ELSE NoEvent

RuleCount == 6

ApplyRule(k, a) ==
    CASE k = 1 -> volume_rule(a)
      [] k = 2 -> quality_rule(a)
      [] k = 3 -> rate_rule(a)
      [] k = 4 -> peak_rule(a)
      [] k = 5 -> line_rule(a)
      [] k = 6 -> type_rule(a)

\* The rules in order; the first one that raises ends the try block, and the
\* events appended before it are what the function returns.
RECURSIVE RunRules(_, _, _)
RunRules(a, k, found) ==
    IF k > RuleCount THEN found
    ELSE LET r == ApplyRule(k, a)
         IN  IF r.raises THEN found ELSE RunRules(a, k + 1, found \o r.events)

\* Mutant: without the try block an exception leaves the function.
local_ai_anomaly_detection_no_try(a) ==
    IF a.bad = "stats" THEN [outcome |-> "raised", events |-> << >>]
    ELSE IF a.today_total <= 0 THEN [outcome |-> "returned", events |-> << >>]
    ELSE IF \E k \in 1..RuleCount : ApplyRule(k, a).raises
    THEN [outcome |-> "raised", events |-> << >>]
    ELSE [outcome |-> "returned", events |-> RunRules(a, 1, << >>)]

\* _local_ai_anomaly_detection
local_ai_anomaly_detection(a) ==
    IF a.bad = "stats" THEN [outcome |-> "returned", events |-> << >>]
    ELSE IF a.today_total <= 0 THEN [outcome |-> "returned", events |-> << >>]
    ELSE [outcome |-> "returned", events |-> RunRules(a, 1, << >>)]

InitAnomaly ==
    /\ PersonaIdle
    /\ EngineIdle
    /\ PredictIdle
    /\ StoreIdle
    /\ ConcIdle
    /\ AnalysisIdle
    /\ HourlyIdle
    /\ CleanIdle
    /\ FeatureIdle
    /\ PathIdle
    /\ HistoryIdle
    /\ SetupIdle
    /\ anomalies = NotDetected
    /\ \E t \in DetectorTotals, avg \in DetectorAverages, dev \in DeviationValues,
          f \in FreshPairs, h \in HourPairs, l \in LinePairs, ty \in TypePairs,
          bad \in BadValues :
          anomaly_in =
            [ today_total |-> t, avg_daily_tons |-> avg, has_std |-> dev.has_std,
              std_daily_tons |-> dev.std_daily_tons,
              type_1_percent |-> f[1], avg_fresh_percent |-> f[2],
              hours_processed |-> h[1], peak_hour_tons |-> h[2],
              line_a_total |-> l[1], line_b_total |-> l[2],
              type_1_total |-> ty[1], type_2_total |-> ty[2], bad |-> bad ]

DetectAnomalies ==
    /\ anomalies = NotDetected
    /\ anomalies' = local_ai_anomaly_detection(anomaly_in)
    /\ UNCHANGED anomaly_in
    /\ UNCHANGED <<engine, personaVars, predictVars, storeVars, concVars>>
    /\ UNCHANGED <<analysisVars, hourlyVars, cleanVars, featureVars, pathVars, historyVars, setupVars>>

NextAnomaly == DetectAnomalies

SpecAnomaly == InitAnomaly /\ [][NextAnomaly]_vars

(***************************************************************************)
(* _clean_nan_values and the module-level wrappers.  A value is a node     *)
(* [key, type, kind, value, items]: key is its key in the enclosing dict   *)
(* ("" in a list or at the root), type its Python type, items its members  *)
(* in order.  A float is finite (value in hundredths), nan, inf or -inf; a *)
(* str keeps its text in kind.                                             *)
(***************************************************************************)
MaxDepth == 2
MaxBatch == 4
RecentHours == 3

Node(type, kind, value, items) ==
    [key |-> "", type |-> type, kind |-> kind, value |-> value, items |-> items]

Float(kind, value) == Node("float", kind, value, << >>)
Finite(value) == Float("finite", value)
NaN == Float("nan", 0)
PosInf == Float("inf", 0)
NegInf == Float("-inf", 0)
Integer(value) == Node("int", "finite", value, << >>)
Str(text) == Node("str", text, 0, << >>)
Keyed(k, node) == [node EXCEPT !.key = k]

\* A dict gives its members their keys; a list has none.
Dict(items) == Node("dict", "container", 0, items)
List(items) == Node("list", "container", 0, [i \in DOMAIN items |-> Keyed("", items[i])])

isnan(x) == x.kind = "nan"
isinf(x) == x.kind \in {"inf", "-inf"}

RECURSIVE clean_nan_values_nan_only(_)
\* Mutant: only NaN is replaced.
clean_nan_values_nan_only(data) ==
    IF data.type \in {"dict", "list"}
    THEN [data EXCEPT !.items =
              [i \in DOMAIN data.items |-> clean_nan_values_nan_only(data.items[i])]]
    ELSE IF data.type \in {"int", "float"}
    THEN IF isnan(data) THEN Keyed(data.key, Integer(0)) ELSE data
    ELSE data

RECURSIVE clean_nan_values(_)
\* _clean_nan_values
clean_nan_values(data) ==
    IF data.type \in {"dict", "list"}
    THEN [data EXCEPT !.items = [i \in DOMAIN data.items |-> clean_nan_values(data.items[i])]]
    ELSE IF data.type \in {"int", "float"}
    THEN IF isnan(data) THEN Keyed(data.key, Integer(0))
         ELSE IF isinf(data) THEN Keyed(data.key, Integer(0))
         ELSE data
    ELSE data

\* Float arithmetic with NaN and the infinities.
Neg(x) ==
    IF x.kind = "inf" THEN NegInf
    ELSE IF x.kind = "-inf" THEN PosInf
    ELSE IF isnan(x) THEN NaN
    ELSE Finite(0 - x.value)

Add(x, y) ==
    IF isnan(x) \/ isnan(y) THEN NaN
    ELSE IF isinf(x) /\ isinf(y) THEN (IF x.kind = y.kind THEN x ELSE NaN)
    ELSE IF isinf(x) THEN Float(x.kind, 0)
    ELSE IF isinf(y) THEN Float(y.kind, 0)
    ELSE Finite(x.value + y.value)

Sub(x, y) == Add(x, Neg(y))

\* x * num / den for a positive constant num / den.
Scale(x, num, den) ==
    IF x.kind = "finite" THEN Finite((x.value * num) \div den) ELSE Float(x.kind, 0)

RECURSIVE SumOfNodes(_)
SumOfNodes(xs) ==
    IF xs = << >> THEN Finite(0) ELSE Add(Head(xs), SumOfNodes(Tail(xs)))

SkipNaN(xs) == SelectSeq(xs, LAMBDA x : ~isnan(x))

\* Series.mean(): NaN is skipped, the mean of nothing is NaN.
Mean(xs) ==
    LET present == SkipNaN(xs)
    IN  IF present = << >> THEN NaN ELSE Scale(SumOfNodes(present), 1, Len(present))

RECURSIVE SquaresAround(_, _, _)
SquaresAround(xs, total, n) ==
    IF xs = << >> THEN 0
    ELSE (n * Head(xs).value - total) * (n * Head(xs).value - total)
         + SquaresAround(Tail(xs), total, n)

\* Series.std(): the sample standard deviation of the values present, NaN
\* with fewer than two of them or with an infinite one.
Std(xs) ==
    LET present == SkipNaN(xs)
        n == Len(present)
    IN  IF n < 2 \/ \E i \in 1..n : isinf(present[i]) THEN NaN
        ELSE Finite(Sqrt(SquaresAround(present, SumOfNodes(present).value, n)
                         \div (n * n * (n - 1))))

\* max(0, x) of Python: x when x > 0, else the int 0.
MaxWithZero(x) ==
    IF x.kind = "inf" \/ (x.kind = "finite" /\ x.value > 0) THEN x ELSE Integer(0)

\* x if not np.isnan(x) else 0
NanToZero(x) == IF isnan(x) THEN Integer(0) ELSE x

\* x < limit for a limit in whole units; False for NaN.
Below(x, limit) == x.kind = "-inf" \/ (x.kind = "finite" /\ x.value < 100 * limit)

\* predict_next_hour_performance
predict_next_hour_performance(batch, current_hour) ==
    IF Len(batch.items) < RecentHours
    THEN Dict(<< Keyed("error", Str("insufficient data")) >>)
    ELSE LET n      == Len(batch.items)
             recent == [i \in 1..RecentHours |->
                            Keyed("", batch.items[n - RecentHours + i].items[1])]
             moving_avg     == Mean(recent)
             trend          == Sub(recent[RecentHours], recent[1])
             trend_per_hour == Scale(trend, 1, RecentHours)
             predicted_tons == Add(moving_avg, trend_per_hour)
             std_dev        == Std(recent)
             lower          == MaxWithZero(Sub(predicted_tons, Scale(std_dev, 196, 100)))
             upper          == Add(predicted_tons, Scale(std_dev, 196, 100))
             confidence_level == IF Below(std_dev, 10) THEN "high"
                                 ELSE IF Below(std_dev, 20) THEN "medium"
                                 ELSE "low"
             result ==
                 Dict(<< Keyed("predicted_tons", NanToZero(predicted_tons)),
                         Keyed("confidence_interval",
                               Dict(<< Keyed("lower", NanToZero(lower)),
                                       Keyed("upper", NanToZero(upper)) >>)),
                         Keyed("confidence_level", Str(confidence_level)),
                         Keyed("trend", NanToZero(trend_per_hour)),
                         Keyed("moving_average", NanToZero(moving_avg)),
                         Keyed("standard_deviation", NanToZero(std_dev)),
                         Keyed("prediction_hour", Integer(current_hour + 1)) >>)
         IN  clean_nan_values(result)

\* predict_hourly_performance
predict_hourly_performance(batch, current_hour) ==
    clean_nan_values(predict_next_hour_performance(batch, current_hour))

\* analyze_hourly_data_advanced.  raw is the result analyze_hourly_performance
\* has built before it cleans and returns it; insights and recommendations
\* are texts.
analyze_hourly_data_advanced(raw) ==
    LET analysis_result == clean_nan_values(raw)
        insights        == List(<< Str("insight") >>)
        recommendations == List(<< Dict(<< Keyed("type", Str("efficiency")),
                                          Keyed("priority", Str("high")) >>) >>)
        result ==
            Dict(<< Keyed("analysis", analysis_result),
                    Keyed("insights", insights),
                    Keyed("recommendations", recommendations),
                    Keyed("generated_at", Str("isoformat")) >>)
    IN  clean_nan_values(result)

\* The values a structure ends in: floats of every kind, an int, a text.
Leaves == { Finite(150), NaN, PosInf, NegInf, Str("N/A") }

\* The dicts and lists of at most two members: a leaf, then a member of inner.
Containers(inner) ==
    LET Members == { << >> } \cup { << x >> : x \in inner }
                   \cup { << x, y >> : x \in Leaves, y \in inner }
    IN  { List(m) : m \in Members }
        \cup { Dict([i \in DOMAIN m |-> Keyed(IF i = 1 THEN "a" ELSE "b", m[i])]) :
                 m \in Members }

RECURSIVE StructuresOfDepth(_)
StructuresOfDepth(d) ==
    IF d = 0 THEN Leaves ELSE Leaves \cup Containers(StructuresOfDepth(d - 1))

Structures == StructuresOfDepth(MaxDepth)

\* Batches of periods: a list of dicts with the volume of each period.
TonsValues == { Finite(0), Finite(600), NaN, PosInf, NegInf }

HourlyBatches ==
    { List([i \in DOMAIN b |-> Dict(<< Keyed("Total_Tons", b[i]) >>)]) :
        b \in UNION { [1..n -> TonsValues] : n \in (RecentHours - 1)..MaxBatch } }

InitClean ==
    /\ PersonaIdle
    /\ EngineIdle
    /\ PredictIdle
    /\ StoreIdle
    /\ ConcIdle
    /\ AnalysisIdle
    /\ HourlyIdle
    /\ AnomalyIdle
    /\ FeatureIdle
    /\ PathIdle
    /\ HistoryIdle
    /\ SetupIdle
    /\ clean_out = NoStructure
    /\ \/ \E d \in Structures, op \in {"clean", "analyze"} :
              clean_in = [op |-> op, data |-> d, current_hour |-> 0]
       \/ \E b \in HourlyBatches, h \in {9, 23} :
              clean_in = [op |-> "predict", data |-> b, current_hour |-> h]

CleanNanValues ==
    /\ clean_in.op = "clean"
    /\ clean_out = NoStructure
    /\ clean_out' = clean_nan_values(clean_in.data)
    /\ UNCHANGED clean_in
    /\ UNCHANGED <<engine, personaVars, predictVars, storeVars, concVars>>
    /\ UNCHANGED <<analysisVars, hourlyVars, anomalyVars, featureVars, pathVars, historyVars, setupVars>>

AnalyzeHourlyDataAdvanced ==
    /\ clean_in.op = "analyze"
    /\ clean_out = NoStructure
    /\ clean_out' = analyze_hourly_data_advanced(clean_in.data)
    /\ UNCHANGED clean_in
    /\ UNCHANGED <<engine, personaVars, predictVars, storeVars, concVars>>
    /\ UNCHANGED <<analysisVars, hourlyVars, anomalyVars, featureVars, pathVars, historyVars, setupVars>>

PredictHourlyPerformance ==
    /\ clean_in.op = "predict"
    /\ clean_out = NoStructure
    /\ clean_out' = predict_hourly_performance(clean_in.data, clean_in.current_hour)
    /\ UNCHANGED clean_in
    /\ UNCHANGED <<engine, personaVars, predictVars, storeVars, concVars>>
    /\ UNCHANGED <<analysisVars, hourlyVars, anomalyVars, featureVars, pathVars, historyVars, setupVars>>

NextClean == CleanNanValues \/ AnalyzeHourlyDataAdvanced \/ PredictHourlyPerformance

SpecClean == InitClean /\ [][NextClean]_vars

(***************************************************************************)
(* LocalAIEngine.extract_features.  The vector has 14 elements; a quotient *)
(* is kept as the pair <<numerator, denominator>>.  The month of           *)
(* datetime.now() is an input of every call.                               *)
(***************************************************************************)
MaxCalls == 2
CrushingMonths == {12, 1, 2, 3, 4}
ClockMonths == {4, 5, 11, 12}

FeatureInputs ==
    [ today_total : {0, 100}, avg_daily_tons : {0, 100},
      type_1_percent : {80}, avg_fresh_percent : {0, 80},
      hours_processed : {0, 10}, peak_hour_tons : {20},
      tons_trend_percent : {0 - 45, 25}, fresh_trend_percent : {11} ]

\* extract_features(stats, exec_summary, trend_data) called while the clock
\* shows month now_month.
extract_features(a, now_month) ==
    << a.today_total, a.avg_daily_tons,
       a.type_1_percent, a.avg_fresh_percent,
       a.hours_processed, a.peak_hour_tons,
       a.tons_trend_percent, a.fresh_trend_percent,
       IF a.avg_daily_tons > 0 THEN <<a.today_total, a.avg_daily_tons>> ELSE <<1, 1>>,
       IF a.avg_fresh_percent > 0 THEN <<a.type_1_percent, a.avg_fresh_percent>> ELSE <<1, 1>>,
       IF a.today_total > 0 /\ a.hours_processed > 0
       THEN <<a.peak_hour_tons * a.hours_processed, a.today_total>> ELSE <<1, 1>>,
       Abs(a.tons_trend_percent),
       Abs(a.fresh_trend_percent),
       IF now_month \in CrushingMonths THEN 1 ELSE 0 >>

InitFeatures ==
    /\ PersonaIdle
    /\ EngineIdle
    /\ PredictIdle
    /\ StoreIdle
    /\ ConcIdle
    /\ AnalysisIdle
    /\ HourlyIdle
    /\ AnomalyIdle
    /\ CleanIdle
    /\ PathIdle
    /\ HistoryIdle
    /\ SetupIdle
    /\ features_in \in FeatureInputs
    /\ feature_calls = << >>

\* One call, at training time or at inference time.
ExtractFeatures ==
    /\ Len(feature_calls) < MaxCalls
    /\ \E now_month \in ClockMonths :
          feature_calls' = Append(feature_calls,
                                  [ month |-> now_month,
                                    features |-> extract_features(features_in, now_month) ])
    /\ UNCHANGED features_in
    /\ UNCHANGED <<engine, personaVars, predictVars, storeVars, concVars>>
    /\ UNCHANGED <<analysisVars, hourlyVars, anomalyVars, cleanVars, pathVars, historyVars, setupVars>>

NextFeatures == ExtractFeatures

SpecFeatures == InitFeatures /\ [][NextFeatures]_vars

(***************************************************************************)
(* LocalAIConfig: the two path attributes, update_local_ai_config, and the *)
(* directories save_models and load_models open their files in.  A file    *)
(* holds the number of the save that wrote it.                             *)
(***************************************************************************)
MaxSaves == 2

\* The model_path argument of update_local_ai_config: absent, or a directory.
PathChoices == {""} \cup Directories

\* The directory in which save_models and load_models open an artifact.
DirectoryOf(paths, a) == IF a = "scaler" THEN paths.scaler_path ELSE paths.model_path

\* update_local_ai_config(model_path=p); a falsy p changes nothing.
UpdateModelPath ==
    /\ \E p \in PathChoices :
          config_paths' = [config_paths EXCEPT !.model_path = IF p # "" THEN p ELSE @]
    /\ UNCHANGED <<disk, io>>
    /\ UNCHANGED <<engine, personaVars, predictVars, storeVars, concVars>>
    /\ UNCHANGED <<analysisVars, hourlyVars, anomalyVars, cleanVars, featureVars, historyVars, setupVars>>

\* save_models, every write succeeding.
SaveToPaths ==
    /\ io.saves < MaxSaves
    /\ disk' = [d \in Directories |->
                   [a \in ArtifactNames |->
                       IF DirectoryOf(config_paths, a) = d THEN io.saves + 1 ELSE disk[d][a]]]
    /\ io' = [ op |-> "save", model_path |-> config_paths.model_path,
               saves |-> io.saves + 1,
               dirs |-> [a \in ArtifactNames |-> DirectoryOf(config_paths, a)] ]
    /\ UNCHANGED config_paths
    /\ UNCHANGED <<engine, personaVars, predictVars, storeVars, concVars>>
    /\ UNCHANGED <<analysisVars, hourlyVars, anomalyVars, cleanVars, featureVars, historyVars, setupVars>>

\* load_models: the files are opened in order, up to the first missing one.
LoadFromPaths ==
    /\ io' = [ io EXCEPT
               !.op = "load",
               !.model_path = config_paths.model_path,
               !.dirs = [a \in ArtifactNames |->
                           LET i == CHOOSE k \in DOMAIN SaveOrder : SaveOrder[k] = a
                           IN  IF \A k \in 1..(i - 1) :
                                     disk[DirectoryOf(config_paths, SaveOrder[k])][SaveOrder[k]] # NoFile
                               THEN DirectoryOf(config_paths, a)
                               ELSE ""] ]
    /\ UNCHANGED <<config_paths, disk>>
    /\ UNCHANGED <<engine, personaVars, predictVars, storeVars, concVars>>
    /\ UNCHANGED <<analysisVars, hourlyVars, anomalyVars, cleanVars, featureVars, historyVars, setupVars>>

InitPaths ==
    /\ PersonaIdle
    /\ EngineIdle
    /\ PredictIdle
    /\ StoreIdle
    /\ ConcIdle
    /\ AnalysisIdle
    /\ HourlyIdle
    /\ AnomalyIdle
    /\ CleanIdle
    /\ FeatureIdle
    /\ HistoryIdle
    /\ SetupIdle
    /\ config_paths = DefaultPaths
    /\ disk = EmptyDisk
    /\ io = NoIo

NextPaths == UpdateModelPath \/ SaveToPaths \/ LoadFromPaths

SpecPaths == InitPaths /\ [][NextPaths]_vars

(***************************************************************************)
(* train_from_db.main: one run per step.  A line of the history file is    *)
(* the record the run appended.                                            *)
(***************************************************************************)
MaxTrainingRuns == 3
MinUsableRows == 10

\* Rows with a comparison baseline and the days they belong to: no row, too
\* few rows, enough rows over too few days, enough days.
RowsAndDays == { <<0, 0>>, <<9, 9>>, <<12, 6>>, <<12, 12>>, <<30, 10>>, <<45, 15>> }

\* How train_local_ai ends once it has enough records, and which of the two
\* writes after a successful training raises.
TrainingOutcomes == {"ok", "fit fails"}
WriteOutcomes == {"ok", "metadata.json", "training_history.jsonl"}

\* main(): the result of the run and the history file after it.
TrainFromDb ==
    /\ history_ret.runs < MaxTrainingRuns
    /\ \E rd \in RowsAndDays, fit \in TrainingOutcomes, write \in WriteOutcomes :
          LET rows == rd[1]
              days == rd[2]
              ok   == days >= DefaultMinDataPoints /\ fit = "ok"
          IN  IF rows = 0
              THEN /\ history_ret' = [runs |-> history_ret.runs + 1, result |-> "no data",
                                      trained |-> FALSE]
                   /\ UNCHANGED history
              ELSE IF rows < MinUsableRows
              THEN /\ history_ret' = [runs |-> history_ret.runs + 1, result |-> "not enough",
                                      trained |-> FALSE]
                   /\ UNCHANGED history
              ELSE IF ~ok
              THEN /\ history_ret' = [runs |-> history_ret.runs + 1, result |-> "failed",
                                      trained |-> FALSE]
                   /\ UNCHANGED history
              ELSE /\ history_ret' = [runs |-> history_ret.runs + 1, result |-> "done",
                                      trained |-> TRUE]
                   /\ history' = IF write = "ok"
                                 THEN Append(history,
                                             [ run |-> history_ret.runs + 1,
                                               days_used |-> days,
                                               total_records_used |-> rows ])
                                 ELSE history
    /\ UNCHANGED <<engine, personaVars, predictVars, storeVars, concVars>>
    /\ UNCHANGED <<analysisVars, hourlyVars, anomalyVars, cleanVars, featureVars, pathVars, setupVars>>

InitHistory ==
    /\ PersonaIdle
    /\ EngineIdle
    /\ PredictIdle
    /\ StoreIdle
    /\ ConcIdle
    /\ AnalysisIdle
    /\ HourlyIdle
    /\ AnomalyIdle
    /\ CleanIdle
    /\ FeatureIdle
    /\ PathIdle
    /\ SetupIdle
    /\ history = << >>
    /\ history_ret = NoRun

NextHistory == TrainFromDb

SpecHistory == InitHistory /\ [][NextHistory]_vars

(***************************************************************************)
(* LocalAISetup (src/local_ai_config.py): train_models, save_models and    *)
(* load_models of one instance, whole calls.  save_models is line for line *)
(* the save_models of LocalAIEngine, with the paths of the instance.       *)
(***************************************************************************)
MaxSetupRuns == 2      \* training runs that get as far as fitting

\* RandomForestRegressor(...) / RandomForestClassifier(...) constructed and
\* not fitted.
Unfitted == 0 - 3

\* len(historical_data): below the minimum of 10, or at it.
SetupRecordCounts == {DefaultMinDataPoints - 1, DefaultMinDataPoints}

\* Lines 121-133 for training run r: the scaler is refitted in place, the
\* three attributes are assigned new unfitted estimators, then each is
\* fitted.
setup_fit_models(eng, r, fit, partial) ==
    CASE fit = "extract"    -> eng
      [] fit = "scaler"     -> [eng EXCEPT !.scaler = IF partial THEN None ELSE @]
      [] fit = "quantity"   -> [eng EXCEPT !.scaler = r, !.quantity_model = Unfitted,
                                           !.quality_model = Unfitted,
                                           !.persona_classifier = Unfitted]
      [] fit = "quality"    -> [eng EXCEPT !.scaler = r, !.quantity_model = r,
                                           !.quality_model = Unfitted,
                                           !.persona_classifier = Unfitted]
      [] fit = "classifier" -> [eng EXCEPT !.scaler = r, !.quantity_model = r,
                                           !.quality_model = r,
                                           !.persona_classifier = Unfitted]
      [] fit = "ok"         -> [eng EXCEPT !.scaler = r, !.quantity_model = r,
                                           !.quality_model = r,
                                           !.persona_classifier = r,
                                           !.is_trained = TRUE]

\* LocalAISetup.load_models: the files are read in order; the first one that
\* is missing or cannot be unpickled ends the call in the except branch,
\* which prints and returns False.  The attributes assigned before it keep
\* the new value and is_trained is not touched.
setup_load_models(eng, fl) ==
    IF ~Readable(fl.quantity_model)
    THEN eng
    ELSE IF ~Readable(fl.quality_model)
    THEN [eng EXCEPT !.quantity_model = fl.quantity_model]
    ELSE IF ~Readable(fl.persona_classifier)
    THEN [eng EXCEPT !.quantity_model = fl.quantity_model,
                     !.quality_model = fl.quality_model]
    ELSE IF ~Readable(fl.scaler)
    THEN [eng EXCEPT !.quantity_model = fl.quantity_model,
                     !.quality_model = fl.quality_model,
                     !.persona_classifier = fl.persona_classifier]
    ELSE [ quantity_model     |-> fl.quantity_model,
           quality_model      |-> fl.quality_model,
           persona_classifier |-> fl.persona_classifier,
           scaler             |-> fl.scaler,
           is_trained         |-> TRUE ]

\* LocalAISetup.train_models(historical_data), save_models included.
SetupTrainModels ==
    /\ \E n \in SetupRecordCounts, fit \in FitOutcomes, failAt \in SaveOutcomes,
          partial \in BOOLEAN :
          IF n < DefaultMinDataPoints
          THEN /\ fit = "ok" /\ failAt = 0 /\ ~partial
               /\ setup_call' = [setup_call EXCEPT !.op = "train_models", !.ret = "False"]
               /\ UNCHANGED <<setup, setup_files>>
          ELSE /\ setup_call.runs < MaxSetupRuns
               /\ partial => (fit = "scaler" \/ failAt # 0)
               /\ setup' = setup_fit_models(setup, setup_call.runs + 1, fit, partial)
               /\ IF fit = "ok"
                  THEN /\ setup_files' = save_models(setup', setup_files, failAt, partial)
                       /\ setup_call' = [op |-> "train_models", ret |-> "True",
                                         runs |-> setup_call.runs + 1]
                  ELSE /\ failAt = 0
                       /\ setup_call' = [op |-> "train_models", ret |-> "False",
                                         runs |-> setup_call.runs + 1]
                       /\ UNCHANGED setup_files
    /\ UNCHANGED <<engine, personaVars, predictVars, storeVars, concVars>>
    /\ UNCHANGED <<analysisVars, hourlyVars, anomalyVars, cleanVars, featureVars, pathVars, historyVars>>

\* LocalAISetup.save_models called on its own.
SetupSaveModels ==
    /\ \E failAt \in SaveOutcomes, partial \in BOOLEAN :
          /\ partial => failAt # 0
          /\ setup_files' = save_models(setup, setup_files, failAt, partial)
    /\ setup_call' = [setup_call EXCEPT !.op = "save_models", !.ret = "None"]
    /\ UNCHANGED setup
    /\ UNCHANGED <<engine, personaVars, predictVars, storeVars, concVars>>
    /\ UNCHANGED <<analysisVars, hourlyVars, anomalyVars, cleanVars, featureVars, pathVars, historyVars>>

\* LocalAISetup.load_models on the instance.
SetupLoadModels ==
    /\ setup' = setup_load_models(setup, setup_files)
    /\ setup_call' = [setup_call EXCEPT
                         !.op = "load_models",
                         !.ret = IF \A a \in ArtifactNames : Readable(setup_files[a])
                                 THEN "True" ELSE "False"]
    /\ UNCHANGED setup_files
    /\ UNCHANGED <<engine, personaVars, predictVars, storeVars, concVars>>
    /\ UNCHANGED <<analysisVars, hourlyVars, anomalyVars, cleanVars, featureVars, pathVars, historyVars>>

\* A new instance in a directory without artifact files.
InitSetup ==
    /\ PersonaIdle
    /\ EngineIdle
    /\ PredictIdle
    /\ StoreIdle
    /\ ConcIdle
    /\ AnalysisIdle
    /\ HourlyIdle
    /\ AnomalyIdle
    /\ CleanIdle
    /\ FeatureIdle
    /\ PathIdle
    /\ HistoryIdle
    /\ setup = FreshEngine
    /\ setup_files = NoFiles
    /\ setup_call = NoCall

NextSetup == SetupTrainModels \/ SetupSaveModels \/ SetupLoadModels

SpecSetup == InitSetup /\ [][NextSetup]_vars

(***************************************************************************)
(* Claims about the StateClassifier (checked under SpecPersona)            *)
(***************************************************************************)
\* The rules of the decision tree as the specification lists them, in order.
RuleStates ==
    << "WEAK_START", "CRITICAL", "EXCELLENT", "CONCERNING_TREND",
       "STABLE_RECOVERY", "QUANTITY_PUSH", "QUALITY_FOCUS", "VOLATILE_PERFORMANCE" >>

RuleMatches(i, qty, qly, stb, trend, hours) ==
    CASE i = 1 -> (1 < hours /\ hours < 8) /\ (qty < 3 \/ qly < 3)
      [] i = 2 -> qty <= 2 /\ qly <= 2
      [] i = 3 -> qty >= 4 /\ qly >= 4 /\ stb >= 4
      [] i = 4 -> trend <= -2 /\ qty >= 3 /\ qly >= 3
      [] i = 5 -> trend >= 2 /\ qty >= 3 /\ qly >= 3
      [] i = 6 -> qty >= 4 /\ qly <= 2
      [] i = 7 -> qty <= 2 /\ qly >= 4
      [] i = 8 -> qty >= 3 /\ stb <= 2

FirstMatchState(qty, qly, stb, trend, hours) ==
    LET matching == {i \in DOMAIN RuleStates : RuleMatches(i, qty, qly, stb, trend, hours)}
    IN  IF matching = {} THEN "STEADY_PERFORMANCE"
        ELSE RuleStates[CHOOSE i \in matching : \A j \in matching : i <= j]

Classified == persona_name # ""

\* C1: for every sub-score triple, trend sign and elapsed-hours value the
\* classifier returns the state of the first rule that matches, in the order
\* weak-start, critical, excellent, concerning-trend, recovering,
\* quantity-push, quality-focus, volatile, and steady when none matches.
C1_FirstMatchWins ==
    Classified =>
        persona_name = FirstMatchState(scores.quantity, scores.quality,
                                       scores.stability, trend_score, hours_processed)

\* Both the weak-start rule and the critical rule match, and the earlier one won.
C1_Witness ==
    /\ Classified
    /\ RuleMatches(1, scores.quantity, scores.quality, scores.stability,
                   trend_score, hours_processed)
    /\ RuleMatches(2, scores.quantity, scores.quality, scores.stability,
                   trend_score, hours_processed)
    /\ persona_name = "WEAK_START"

\* C2: the classifier is total and every name it returns is one of the nine
\* keys of PERSONAS, so the lookup PERSONAS[persona_name] cannot fail.
C2_PersonaIsTableKey ==
    Classified =>
        /\ persona_name \in DOMAIN PERSONAS
        /\ Cardinality(DOMAIN PERSONAS) = 9

\* No rule matched and the fallback state was returned.
C2_Witness ==
    /\ Classified
    /\ \A i \in DOMAIN RuleStates :
           ~RuleMatches(i, scores.quantity, scores.quality, scores.stability,
                        trend_score, hours_processed)
    /\ persona_name = "STEADY_PERFORMANCE"

\* C3 as stated: quantity = 1 and quality = 1 give "critical" for every
\* stability, trend sign and elapsed-hours value.
C3_CriticalWhateverHours ==
    (Classified /\ scores.quantity = 1 /\ scores.quality = 1) =>
        persona_name = "CRITICAL"

\* C3 amended: quantity = 1 and quality = 1 give "critical" for every
\* stability and trend sign when the elapsed hours are not strictly between
\* 1 and 8, and "weak-start" when they are.
C3_CriticalOutsidePartialDay ==
    (Classified /\ scores.quantity = 1 /\ scores.quality = 1) =>
        persona_name = (IF 1 < hours_processed /\ hours_processed < 8
                        THEN "WEAK_START" ELSE "CRITICAL")

\* A full-day call with quantity = quality = 1 and the best stability.
C3_Witness ==
    /\ Classified
    /\ scores = [quantity |-> 1, quality |-> 1, stability |-> 5]
    /\ hours_processed >= 8
    /\ persona_name = "CRITICAL"

(***************************************************************************)
(* Claims about inference (checked under SpecPredict)                      *)
(***************************************************************************)
\* C4: for every output of the two regressors and every input with today's
\* volume > 0, whatever today's quality is, the volume prediction ends up in
\* [0.6 x today, 1.4 x today] and the quality prediction in [0, 100].
C4_PredictionsClamped ==
    (prediction.kind = "prediction" /\ stats.today_total > 0) =>
        /\ 10 * prediction.pred_qty >= 6 * stats.today_total
        /\ 10 * prediction.pred_qty <= 14 * stats.today_total
        /\ prediction.pred_qly >= 0
        /\ prediction.pred_qly <= 100

\* C5: inference returns the 'model not trained' result whenever is_trained
\* is false and the 'insufficient data' result whenever is_trained is true and
\* today's volume is <= 0; in both cases neither the scaler nor a model is
\* consulted and no numeric prediction is produced.
C5_ExplicitFailureResults ==
    prediction.kind # "none" =>
        /\ ~engine.is_trained => prediction.kind = "not_trained"
        /\ (engine.is_trained /\ stats.today_total <= 0) =>
               prediction.kind = "insufficient_data"
        /\ prediction.kind \in {"not_trained", "insufficient_data"} =>
               /\ ~prediction.scaler_used
               /\ ~prediction.models_used
               /\ prediction.pred_qty = NoPrediction.pred_qty
               /\ prediction.pred_qly = NoPrediction.pred_qly
               /\ (~engine.is_trained \/ stats.today_total <= 0)

\* A trained engine was asked about a day without volume.
C5_Witness ==
    /\ engine = TrainedEngine(1)
    /\ stats.today_total = 0
    /\ prediction.kind = "insufficient_data"

(***************************************************************************)
(* Claims about training and persistence (checked under SpecEngine)        *)
(***************************************************************************)
\* C6: persisting is atomic: after any training run, also one whose
\* save_models failed after writing only some files, the four artifact
\* files all come from the same training run (all from the previous run, or
\* none existing before the first one, or all from the new run).
C6_FilesFromOneRun ==
    \/ \A a \in ArtifactNames : files[a] = NoFile
    \/ \E r \in 1..run : \A a \in ArtifactNames : files[a] = r

\* C8: round trip: after train_models has returned True, a new process that
\* loads the files holds the scaler and the three models of the engine that
\* trained (and so predicts the same for the same feature vector).
C8_RestartRestoresTrainedEngine ==
    (lastOp = "restart" /\ ret = "True") => engine = trained_engine

\* C9: train_models called with fewer records than the configured minimum
\* returns False and leaves the models, the scaler, is_trained and the
\* artifact files as they were.
C9_TooFewRecordsChangeNothing ==
    [][(lastOp' = "train_models" /\ last_n' < min_data_points) =>
          (ret' = "False" /\ engine' = engine /\ files' = files)]_vars

\* A trained engine with its files on disk was asked to train on too few
\* records, under a minimum that was raised above the default.
C9_Witness ==
    /\ lastOp = "train_models"
    /\ last_n < min_data_points
    /\ last_n >= DefaultMinDataPoints
    /\ ret = "False"
    /\ engine.is_trained
    /\ \A a \in ArtifactNames : files[a] = run /\ run > 0

\* C27: after any sequence of train_models, save_models and load_models
\* calls, successful or failing, an engine with is_trained = True holds a
\* quantity model, a quality model and a classifier that are not None.
C27_TrainedHasModels ==
    engine.is_trained =>
        /\ engine.quantity_model # None
        /\ engine.quality_model # None
        /\ engine.persona_classifier # None

\* C28: whenever train_models returns False, also when fitting failed
\* part-way, the scaler, the three models and is_trained of the engine are
\* exactly what they were before the call.
C28_FailedTrainingChangesNothing ==
    [][(lastOp' = "train_models" /\ ret' = "False") => engine' = engine]_vars

(***************************************************************************)
(* Claims about concurrent retraining (checked under SpecConc)             *)
(***************************************************************************)
SameRun(values) == \E r \in 1..MaxRuns : \A v \in values : v = r

\* C7: while a retraining interleaves with an inference in another thread
\* or with a load_models in another process, a finished inference has used a
\* scaler and models of one training run, and a load that ended with
\* is_trained = True holds a scaler and three models of one training run.
C7_NeverMixesRuns ==
    /\ (ipc = "done" /\ seen.kind = "prediction") =>
           SameRun({seen.scaler, seen.quantity_model, seen.quality_model})
    /\ (lpc = 0 /\ engine2.is_trained) =>
           SameRun({engine2.scaler, engine2.quantity_model, engine2.quality_model,
                    engine2.persona_classifier})

(***************************************************************************)
(* Claims about generate_analysis (checked under SpecAnalysis)             *)
(***************************************************************************)
\* C10: the final score computed by generate_analysis lies in [1, 10]
\* (10..100 in tenths), whatever the sub-scores and the anomaly, efficiency
\* and seasonal adjustments are.
C10_FinalScoreInRange ==
    analysis_out.kind = "analysis" =>
        (analysis_out.overall_score_value >= 10 /\ analysis_out.overall_score_value <= 100)

\* An analysis whose rescaled score fell below 1 and was raised to 1.
C10_Witness ==
    /\ analysis_out.kind = "analysis"
    /\ 20 + 2 * (analysis_out.ai_enhanced_score - 10) < 10
    /\ analysis_out.overall_score_value = 10

\* The gates, stated on the arguments.
IsNewYearHoliday(a) == <<a.month, a.day>> \in { <<12, 31>>, <<1, 1>>, <<1, 2>> }
NoVolumeToday(a) == a.today_total <= 0
OutOfSeason(a) == a.month \in 5..11
NoComparison(a) == ~a.has_comparison_data
Gated(a) == IsNewYearHoliday(a) \/ NoVolumeToday(a) \/ OutOfSeason(a) \/ NoComparison(a)

\* A failure happened during the call: the arguments were rejected, or a
\* helper failed once no gate had returned.
FailureOccurred(a) == a.raises = "arguments" \/ (a.raises = "helper" /\ ~Gated(a))

\* The uniform error result: error headline, score value 0, not AI-enhanced.
IsErrorResult(result) ==
    /\ result.kind = "error"
    /\ result.overall_score_value = 0
    /\ result.ai_enhanced = FALSE
    /\ result.anomalies = "absent"
    /\ result.efficiency_metrics = "absent"

\* C18: generate_analysis never raises: every call returns a result, and
\* whenever a failure occurred (rejected arguments or a failing helper) the
\* result is the uniform error result with score value 0 and ai_enhanced
\* False.
C18_NeverRaises ==
    analysis_out # NoAnalysis =>
        /\ analysis_out.kind \in
               {"error", "holiday", "no_data", "off_season", "no_comparison", "analysis"}
        /\ FailureOccurred(analysis_in) => IsErrorResult(analysis_out)
        /\ ~FailureOccurred(analysis_in) => analysis_out.kind # "error"

\* A helper failed after every gate had been passed.
C18_Witness ==
    /\ analysis_in.raises = "helper"
    /\ ~Gated(analysis_in)
    /\ IsErrorResult(analysis_out)
    /\ analysis_out.calls # {}

\* C19: the gates apply in the order holiday, no volume today, out of
\* season, no comparison data; every gated result has ai_enhanced False and
\* score value 0, the last three carry empty anomalies and efficiency
\* metrics, no helper has run, and the AI-enhanced result is returned only
\* when no gate applies.
C19_GatesInOrder ==
    (analysis_out # NoAnalysis /\ analysis_in.raises # "arguments") =>
        LET a == analysis_in
            gate == IF IsNewYearHoliday(a) THEN "holiday"
                    ELSE IF NoVolumeToday(a) THEN "no_data"
                    ELSE IF OutOfSeason(a) THEN "off_season"
                    ELSE IF NoComparison(a) THEN "no_comparison"
                    ELSE "none"
        IN  /\ gate # "none" =>
                /\ analysis_out.kind = gate
                /\ analysis_out.ai_enhanced = FALSE
                /\ analysis_out.overall_score_value = 0
                /\ analysis_out.calls = {}
            /\ gate \in {"no_data", "off_season", "no_comparison"} =>
                /\ analysis_out.anomalies = "empty"
                /\ analysis_out.efficiency_metrics = "empty"
            /\ analysis_out.ai_enhanced => gate = "none"
            /\ (gate = "none" /\ a.raises = "none") =>
                /\ analysis_out.ai_enhanced
                /\ analysis_out.calls = AnalysisHelpers

\* A day out of season without volume: the volume gate answers, not the
\* season gate.
C19_Witness ==
    /\ analysis_out.kind = "no_data"
    /\ OutOfSeason(analysis_in)
    /\ NoComparison(analysis_in)
    /\ analysis_out.anomalies = "empty"

C26_LinearRescale ==
    analysis_out.kind = "analysis" =>
        LET linear4 == 4 * 10 + 9 * (analysis_out.ai_enhanced_score - 10)
        IN  4 * analysis_out.overall_score_value =
                IF linear4 < 4 * 10 THEN 4 * 10
                ELSE IF linear4 > 4 * 100 THEN 4 * 100
                ELSE linear4

\* C29: the anomaly_score of _advanced_pattern_recognition is positive
\* whenever the average volume is positive and today's volume deviates from
\* it by more than 30 percent, whatever hours_processed is, 0 included.
C29_VolumeDeviationScored ==
    ( /\ analysis_out.kind = "analysis"
      /\ "_advanced_pattern_recognition" \in analysis_out.calls
      /\ analysis_in.avg_daily_tons > 0
      /\ 10 * Abs(analysis_in.today_total - analysis_in.avg_daily_tons)
             > 3 * analysis_in.avg_daily_tons )
    => advanced_pattern_recognition(analysis_in).anomaly_num > 0

(***************************************************************************)
(* Claims about the AdvancedHourlyAnalyzer (checked under SpecHourly)      *)
(***************************************************************************)
Analyzed == "overall_performance_index" \in DOMAIN hourly_out

\* C11: for every non-empty batch of periods with non-negative counts and
\* volumes, of any length, the four component scores and the weighted
\* overall index lie within [0, 100].
C11_IndexInRange ==
    Analyzed =>
        LET index == hourly_out.overall_performance_index
        IN  /\ \A name \in DOMAIN index.component_scores :
                   index.component_scores[name] >= 0 /\ index.component_scores[name] <= 100
            /\ index.overall_index >= 0 /\ index.overall_index <= 100 * 100

\* A batch of more than 24 periods, more than 24 of them active.
C11_Witness ==
    /\ Analyzed
    /\ Len(hourly_data) > HoursPerDay
    /\ hourly_out.performance_metrics.active_hours > HoursPerDay
    /\ hourly_out.overall_performance_index.component_scores.efficiency = 100

\* The sentinel carries the error and nothing else; a numeric result
\* carries no error.
IsSentinel(result) == DOMAIN result = {"error"}
IsNumeric(result) == "error" \notin DOMAIN result /\ DOMAIN result # {}

\* C16: each analyzer returns its insufficient-data sentinel exactly when
\* the batch is shorter than its minimum (trend and peak detection 3,
\* variability 2, correlation 4), and a numeric result otherwise.
C16_SentinelBelowMinimum ==
    Analyzed =>
        LET n == Len(hourly_data)
            Exactly(result, minimum) ==
                /\ IsSentinel(result) <=> n < minimum
                /\ IsNumeric(result) <=> n >= minimum
        IN  /\ Exactly(hourly_out.trend_analysis, 3)
            /\ Exactly(hourly_out.peak_performance, 3)
            /\ Exactly(hourly_out.variability_analysis, 2)
            /\ Exactly(hourly_out.correlation_analysis, 4)

\* A batch of three periods: trend and peaks are analysed, correlation is not.
C16_Witness ==
    /\ Analyzed
    /\ Len(hourly_data) = 3
    /\ IsNumeric(hourly_out.trend_analysis)
    /\ IsNumeric(hourly_out.peak_performance)
    /\ IsSentinel(hourly_out.correlation_analysis)

\* C17: the active ratio (efficiency_ratio) of a non-empty batch equals the
\* number of periods with volume > 0 divided by the number of periods in
\* the batch.
C17_ActiveRatioOverBatch ==
    Analyzed =>
        LET ratio  == hourly_out.performance_metrics.efficiency_ratio
            active == Cardinality({ i \in 1..Len(hourly_data) : hourly_data[i].Total_Tons > 0 })
        IN  ratio.num * Len(hourly_data) = active * ratio.den

\* The elements of a sequence.
Elements(seq) == { seq[k] : k \in DOMAIN seq }

\* C25: _find_consecutive_periods returns exactly the maximal runs of
\* consecutive peak indices of length >= 2, in ascending order: each run is
\* a block i..j of peaks with neither i-1 nor j+1 a peak, the runs are
\* disjoint, a peak with an adjacent peak is in exactly one run and an
\* isolated peak in none.
C25_MaximalRuns ==
    (Analyzed /\ IsNumeric(hourly_out.peak_performance)) =>
        LET peaks == Elements(hourly_out.peak_performance.peak_hours)
            runs  == hourly_out.peak_performance.consecutive_peaks
            RunsWith(p) == { r \in DOMAIN runs : p \in Elements(runs[r]) }
        IN  /\ \A r \in DOMAIN runs :
                   /\ Len(runs[r]) >= 2
                   /\ \A k \in 1..(Len(runs[r]) - 1) : runs[r][k + 1] = runs[r][k] + 1
                   /\ Elements(runs[r]) \subseteq peaks
                   /\ (runs[r][1] - 1) \notin peaks
                   /\ (runs[r][Len(runs[r])] + 1) \notin peaks
            /\ \A r \in 1..(Len(runs) - 1) : runs[r][Len(runs[r])] < runs[r + 1][1]
            /\ \A p \in peaks :
                   IF (p - 1) \in peaks \/ (p + 1) \in peaks
                   THEN Cardinality(RunsWith(p)) = 1
                   ELSE RunsWith(p) = {}

\* Two runs and an isolated peak, the last run ending with the batch.
C25_Witness ==
    /\ Analyzed
    /\ hourly_out.peak_performance.peak_hours = <<0, 1, 3, 5, 6, 7>>
    /\ hourly_out.peak_performance.consecutive_peaks = << <<0, 1>>, <<5, 6, 7>> >>

(***************************************************************************)
(* Claims about the anomaly detector (checked under SpecAnomaly)           *)
(***************************************************************************)
Detected == anomalies.outcome # "none"

EventsOf(result, rule) == SelectSeq(result.events, LAMBDA e : e.rule = rule)

\* Five times the standard deviation the volume rule uses.
StdTimes5(a) == IF a.has_std THEN 5 * a.std_daily_tons ELSE a.avg_daily_tons

\* The same day at the same distance on the other side of the average.
Mirrored(a) == [a EXCEPT !.today_total = 2 * a.avg_daily_tons - a.today_total]

\* C12: with a positive average, a positive standard deviation and a
\* positive volume today, the volume rule emits exactly one event iff
\* |today - average| / std > 2, worded "above" when today is above the
\* average and "below" when it is below; the day at the mirrored distance
\* triggers iff this one does.
C12_VolumeRuleSymmetric ==
    ( /\ Detected
      /\ anomaly_in.bad \notin {"stats", "std_daily_tons"}
      /\ anomaly_in.today_total > 0
      /\ anomaly_in.avg_daily_tons > 0
      /\ StdTimes5(anomaly_in) > 0 )
    => LET volume  == EventsOf(anomalies, "volume")
           far     == 5 * Abs(anomaly_in.today_total - anomaly_in.avg_daily_tons)
                          > 2 * StdTimes5(anomaly_in)
           mirror  == Mirrored(anomaly_in)
       IN  /\ Len(volume) = IF far THEN 1 ELSE 0
           /\ far => volume[1].wording =
                       IF anomaly_in.today_total > anomaly_in.avg_daily_tons
                       THEN "above" ELSE "below"
           /\ mirror.today_total > 0 =>
                 Len(EventsOf(local_ai_anomaly_detection(mirror), "volume")) = Len(volume)

\* A day far below the average whose mirrored day is far above it.
C12_Witness ==
    /\ Detected
    /\ anomaly_in.today_total > 0
    /\ anomaly_in.today_total < anomaly_in.avg_daily_tons
    /\ Mirrored(anomaly_in).today_total > anomaly_in.avg_daily_tons
    /\ Len(EventsOf(anomalies, "volume")) = 1
    /\ EventsOf(anomalies, "volume")[1].wording = "below"

\* C13: the detector never raises; with no volume today it returns the
\* empty list; a rule whose denominator is zero contributes no event, and
\* the other rules are evaluated all the same.
C13_DetectorNeverRaises ==
    Detected =>
        /\ anomalies.outcome = "returned"
        /\ (anomaly_in.bad # "stats" /\ anomaly_in.today_total <= 0) => anomalies.events = << >>
        /\ (anomaly_in.bad = "none" /\ anomaly_in.today_total > 0) =>
             /\ \A k \in 1..RuleCount :
                    \A i \in 1..Len(ApplyRule(k, anomaly_in).events) :
                        \E j \in 1..Len(anomalies.events) :
                            anomalies.events[j] = ApplyRule(k, anomaly_in).events[i]
             /\ (anomaly_in.avg_daily_tons = 0 \/ StdTimes5(anomaly_in) = 0) =>
                    EventsOf(anomalies, "volume") = << >>
             /\ (anomaly_in.avg_daily_tons = 0 \/ anomaly_in.hours_processed = 0) =>
                    EventsOf(anomalies, "rate") = << >>
             /\ anomaly_in.hours_processed = 0 => EventsOf(anomalies, "peak") = << >>
             /\ anomaly_in.line_a_total + anomaly_in.line_b_total = 0 =>
                    EventsOf(anomalies, "line") = << >>
             /\ anomaly_in.type_1_total + anomaly_in.type_2_total = 0 =>
                    EventsOf(anomalies, "type") = << >>

\* A day whose average and elapsed hours are zero, on which the stream and
\* the grade rules still emitted their events.
C13_Witness ==
    /\ anomalies.outcome = "returned"
    /\ anomaly_in.bad = "none"
    /\ anomaly_in.today_total > 0
    /\ anomaly_in.avg_daily_tons = 0
    /\ anomaly_in.hours_processed = 0
    /\ Len(EventsOf(anomalies, "line")) = 1
    /\ Len(EventsOf(anomalies, "type")) = 1

\* C14: for non-negative stream totals A and B with A + B > 0 on a day with
\* activity, exactly one stream event is emitted, naming the dominant
\* stream, iff one stream carries more than 70% of A + B; none otherwise.
C14_StreamImbalance ==
    ( /\ Detected
      /\ anomaly_in.bad = "none"
      /\ anomaly_in.today_total > 0
      /\ anomaly_in.line_a_total + anomaly_in.line_b_total > 0 )
    => LET line  == EventsOf(anomalies, "line")
           total == anomaly_in.line_a_total + anomaly_in.line_b_total
           a_dominates == 100 * anomaly_in.line_a_total > 70 * total
           b_dominates == 100 * anomaly_in.line_b_total > 70 * total
       IN  /\ Len(line) = IF a_dominates \/ b_dominates THEN 1 ELSE 0
           /\ a_dominates => line[1].wording = "A"
           /\ b_dominates => line[1].wording = "B"

\* C15: for non-negative grade totals with a positive combined total on a
\* day with activity, a grade event is emitted iff the primary grade is more
\* than 95% or less than 50% of the combined total.
C15_GradeRatio ==
    ( /\ Detected
      /\ anomaly_in.bad = "none"
      /\ anomaly_in.today_total > 0
      /\ anomaly_in.type_1_total + anomaly_in.type_2_total > 0 )
    => LET total   == anomaly_in.type_1_total + anomaly_in.type_2_total
           extreme == \/ 100 * anomaly_in.type_1_total > 95 * total
                      \/ 100 * anomaly_in.type_1_total < 50 * total
       IN  (Len(EventsOf(anomalies, "type")) >= 1) <=> extreme

(***************************************************************************)
(* Claims about _clean_nan_values (checked under SpecClean)                *)
(***************************************************************************)
IsContainer(x) == x.type \in {"dict", "list"}
IsNumber(x) == x.type \in {"int", "float"}

\* y is x with every NaN and every infinite number replaced by the int 0,
\* whatever the nesting, and with nothing else changed.
RECURSIVE SameButNumbers(_, _)
SameButNumbers(x, y) ==
    IF IsContainer(x)
    THEN /\ y.type = x.type
         /\ y.key = x.key
         /\ Len(y.items) = Len(x.items)
         /\ \A i \in 1..Len(x.items) : SameButNumbers(x.items[i], y.items[i])
    ELSE IF IsNumber(x) /\ x.kind \in {"nan", "inf", "-inf"}
    THEN y = [key |-> x.key, type |-> "int", kind |-> "finite", value |-> 0, items |-> << >>]
    ELSE y = x

\* A NaN or an infinite number somewhere in x.
RECURSIVE HasNanOrInf(_)
HasNanOrInf(x) ==
    IF IsContainer(x) THEN \E i \in 1..Len(x.items) : HasNanOrInf(x.items[i])
    ELSE x.kind \in {"nan", "inf", "-inf"}

CleanDone == clean_out # NoStructure

\* C20: _clean_nan_values returns a structure of the same shape in which
\* every NaN and every +/-Infinity is replaced by 0 and every other value is
\* unchanged; the results of analyze_hourly_data_advanced and of
\* predict_hourly_performance hold no NaN and no Infinity.
C20_NoNanOrInfLeft ==
    CleanDone =>
        /\ clean_in.op = "clean" => SameButNumbers(clean_in.data, clean_out)
        /\ ~HasNanOrInf(clean_out)

\* A dict with an infinite number and, nested in a list, another NaN or
\* infinite number: both are replaced, the shape is kept.
C20_Witness ==
    /\ CleanDone
    /\ clean_in.op = "clean"
    /\ clean_in.data.type = "dict"
    /\ Len(clean_in.data.items) = 2
    /\ clean_in.data.items[1].kind = "inf"
    /\ clean_in.data.items[2].type = "list"
    /\ HasNanOrInf(clean_in.data.items[2])
    /\ clean_out.items[1].type = "int"
    /\ clean_out.items[2].type = "list"
    /\ ~HasNanOrInf(clean_out)

(***************************************************************************)
(* Claims about extract_features (checked under SpecFeatures)              *)
(***************************************************************************)
\* C21: extract_features is a function of its three arguments: any two
\* calls with the same stats, execution summary and trend data return the
\* same 14-element vector, in whatever calendar month they are made.
C21_FeaturesDeterministic ==
    \A i, j \in DOMAIN feature_calls :
        /\ Len(feature_calls[i].features) = 14
        /\ feature_calls[i].features = feature_calls[j].features

(***************************************************************************)
(* Claims about the configured directory (checked under SpecPaths)         *)
(***************************************************************************)
\* C22: after any sequence of update_local_ai_config calls, save_models
\* writes and load_models reads all four artifacts in the one directory
\* that is configured as model_path at the time of the call.
C22_OneConfiguredDirectory ==
    io.op # "none" =>
        /\ \A a \in ArtifactNames : io.dirs[a] \in {"", io.model_path}
        /\ io.op = "save" => \A a \in ArtifactNames : io.dirs[a] = io.model_path

(***************************************************************************)
(* Claims about the training history (checked under SpecHistory)           *)
(***************************************************************************)
IsPrefix(old, new) == Len(old) <= Len(new) /\ SubSeq(new, 1, Len(old)) = old

\* C23: the history is append-only: a run whose training reports success
\* appends exactly one record and leaves the earlier ones unchanged, a run
\* that fails or is skipped appends nothing; earlier content is always a
\* prefix of later content.
C23_HistoryAppendOnly ==
    [][ /\ IsPrefix(history, history')
        /\ history_ret'.trained => Len(history') = Len(history) + 1
        /\ ~history_ret'.trained => history' = history ]_vars

(***************************************************************************)
(* Claims about LocalAISetup (checked under SpecSetup)                     *)
(***************************************************************************)
\* C30: after a load_models that failed, part-way included, the instance
\* reports not-trained (so that inference, which only tests is_trained, does
\* not run on a partly loaded mixture) until a later load or training
\* succeeds; stated here for LocalAISetup, a previously trained instance
\* included.
C30_FailedLoadReportsUntrained ==
    ( /\ setup_call.op = "load_models"
      /\ setup_call.ret = "False"
      /\ Readable(setup_files.quantity_model) )
    => ~setup.is_trained

====
